---------------------------- MODULE Spec2Model ----------------------------
(***************************************************************************)
(* Model of the webhook-subscription constraint validator: the callback    *)
(* passed to WebhooksSchema.superRefine (src/unnamed/part_001, 83-253).    *)
(*                                                                         *)
(* The callback receives one webhooks document and a context ctx.  It      *)
(* runs the top-level checks, then a loop over the top-level topics, then  *)
(* a loop over the subscriptions array.  Every check that fails calls      *)
(* ctx.addIssue and returns.  The document validates iff the callback      *)
(* returns with no issue added.                                            *)
(*                                                                         *)
(* Strings are TLA+ strings and keys are built by concatenation, as in    *)
(* the code.  An optional field that is absent (undefined) is the empty   *)
(* string here: every use the validator makes of an optional field is a   *)
(* truthiness test (filter(Boolean), &&, !, if), and undefined and '' are *)
(* both falsy, so the two are the same input to it.                       *)
(***************************************************************************)
EXTENDS Integers, Sequences, FiniteSets, TLC

(***************************************************************************)
(* Bounds of the model and the input alphabets.                            *)
(***************************************************************************)
MaxTopics == 2

MaxSubscriptions == 2

NoValue == ""

Urls == {"https://a.com", "https://a.com/x"}

Paths == {"/x"}

PubSubProjects == {"p"}

PubSubTopics == {"q"}

Arns == {"arn:aws:events:us-east-1::event-source/aws.partner/shopify.com/1/s"}

Topics == {"orders/create", "products/update"}

Optional(S) == S \cup {NoValue}

SeqsUpTo(S, n) == UNION {[1..k -> S] : k \in 0..n}

\* WebhookSubscriptionSchema: the fields of a subscription the validator reads.
Subscriptions ==
  [topic: Topics,
   subscription_endpoint_url: Optional(Urls),
   path: Optional(Paths),
   pubsub_project: Optional(PubSubProjects),
   pubsub_topic: Optional(PubSubTopics),
   arn: Optional(Arns)]

\* WebhooksSchema: the top-level fields the validator reads (topics defaults to []).
Webhooks ==
  [subscription_endpoint_url: Optional(Urls),
   pubsub_project: Optional(PubSubProjects),
   pubsub_topic: Optional(PubSubTopics),
   arn: Optional(Arns),
   topics: SeqsUpTo(Topics, MaxTopics)]

(***************************************************************************)
(* JavaScript helpers used by the callback.                                *)
(***************************************************************************)
\* Boolean(v) for v a string or undefined.
Boolean(v) == v # NoValue

\* a && b for strings.
And(a, b) == IF Boolean(a) THEN b ELSE a

\* array.filter(Boolean)
FilterBoolean(arr) == SelectSeq(arr, Boolean)

RECURSIVE Join(_, _)
\* array.join(delimiter)
Join(arr, d) ==
  IF arr = <<>> THEN ""
  ELSE IF Len(arr) = 1 THEN arr[1]
  ELSE arr[1] \o d \o Join(Tail(arr), d)

\* const delimiter = '::'
delimiter == "::"

(***************************************************************************)
(* Messages of the issues (the typographic apostrophe and the backquotes  *)
(* of the source are written ' here).                                     *)
(***************************************************************************)
getFullPubSubValidationError(suffix) ==
  "You must declare both pubsub_project and pubsub_topic if you wish to use " \o suffix

getTooManyDesignationsError(suffix) ==
  "You are only allowed to declare one (1) of subscription_endpoint_url, pubsub_project & pubsub_topic, or arn "
    \o suffix

UnusedDestinationMessage ==
  "To use a top-level destination, you must also provide a 'topics' array or 'subscriptions' configuration"

TopicsMissingDestinationMessage ==
  "To use top-level topics, you must also provide a top-level destination of either subscription_endpoint_url, pubsub_project & pubsub_topic, or arn"

DuplicateSubscriptionMessage ==
  "You can't have duplicate subscriptions with the exact same topic and destination"

MissingDestinationMessage ==
  "You must declare either a top-level destination or a destination per subscription"

PathMissingEndpointMessage ==
  "You must declare a subscription_endpoint_url if you wish to use a relative path"

PathWithIncompatibleDestinationMessage ==
  "You can't define a path when using arn or pubsub"

\* One `if (cond) { ctx.addIssue({message, path, fatal: true}); return zod.NEVER }`.
Check(cond, message, path) == [fails |-> cond, issue |-> [message |-> message, path |-> path]]

IsFailing(check) == check.fails

\* The issues a run of consecutive checks adds when each failing check adds its
\* issue and goes on to the next check (no return after addIssue).
AddEveryIssue(checks) ==
  LET failing == SelectSeq(checks, IsFailing)
  IN  [k \in 1..Len(failing) |-> failing[k].issue]

\* The issues a run of consecutive checks adds: the first failing check adds its
\* issue and returns zod.NEVER, so the later checks are not reached.
ReturnAtFirstIssue(checks) ==
  LET failing == SelectSeq(checks, IsFailing)
  IN  IF failing = <<>> THEN <<>> ELSE <<failing[1].issue>>

(***************************************************************************)
(* The top-level checks.                                                   *)
(***************************************************************************)
\* The top-level destinations counted without the arn.
topLevelDestinationsWithoutArn(w) ==
  FilterBoolean(<<w.subscription_endpoint_url, And(w.pubsub_project, w.pubsub_topic)>>)

topLevelDestinations(w) ==
  FilterBoolean(<<w.subscription_endpoint_url, And(w.pubsub_project, w.pubsub_topic), w.arn>>)

topLevelDestination(w) ==
  Join(FilterBoolean(<<w.subscription_endpoint_url, w.pubsub_project, w.pubsub_topic, w.arn>>),
       delimiter)

\* Lines 92-99.
TopLevelPairCheck(w) ==
  Check(Len(FilterBoolean(<<w.pubsub_project, w.pubsub_topic>>)) = 1,
        getFullPubSubValidationError("a top-level pub sub destination"), <<>>)

\* Lines 101-108.
TopLevelExclusivityCheck(w) ==
  Check(Len(topLevelDestinations(w)) > 1,
        getTooManyDesignationsError("at the top level"), <<>>)

\* The unused-destination check with the negation of topics.length lost.
UnusedDestinationCheckNeedingTopics(w, n) ==
  Check(Len(topLevelDestinations(w)) # 0 /\ Len(w.topics) # 0 /\ n = 0,
        UnusedDestinationMessage, <<>>)

\* Lines 110-118; n is subscriptions.length.
UnusedDestinationCheck(w, n) ==
  Check(Len(topLevelDestinations(w)) # 0 /\ Len(w.topics) = 0 /\ n = 0,
        UnusedDestinationMessage, <<>>)

\* Lines 120-129.
TopicsMissingDestinationCheck(w) ==
  Check(Len(topLevelDestinations(w)) = 0 /\ Len(w.topics) # 0,
        TopicsMissingDestinationMessage, <<"topics">>)

\* The top-level checks without the topics-without-destination check.
TopLevelCheckListWithoutTopicsCheck(w, n) ==
  <<TopLevelPairCheck(w), TopLevelExclusivityCheck(w), UnusedDestinationCheck(w, n)>>

\* The top-level checks with the exclusivity check ahead of the pair check.
TopLevelCheckListExclusivityFirst(w, n) ==
  <<TopLevelExclusivityCheck(w), TopLevelPairCheck(w),
    UnusedDestinationCheck(w, n), TopicsMissingDestinationCheck(w)>>

\* The top-level checks in the order of the code.
TopLevelCheckList(w, n) ==
  <<TopLevelPairCheck(w), TopLevelExclusivityCheck(w),
    UnusedDestinationCheck(w, n), TopicsMissingDestinationCheck(w)>>

TopLevelIssues(w, n) == ReturnAtFirstIssue(TopLevelCheckList(w, n))

\* The key of a top-level topic built without the topic.
TopLevelKeyWithoutTopic(w, topic) == delimiter \o topLevelDestination(w)

\* key of a top-level topic
TopLevelKey(w, topic) == topic \o delimiter \o topLevelDestination(w)

\* subscriptionDestinationsSet.has(key)
Has(set, key) == key \in set

TopicIssues(w, topic, set) ==
  ReturnAtFirstIssue(<<
    Check(Has(set, TopLevelKey(w, topic)), DuplicateSubscriptionMessage, <<"topics", topic>>)
  >>)

(***************************************************************************)
(* The checks of one subscription, at index i (0-based).                   *)
(***************************************************************************)
\* The destinations of a subscription counted without the arn.
subscriptionDestinationsWithoutArn(s) ==
  FilterBoolean(<<s.subscription_endpoint_url, And(s.pubsub_project, s.pubsub_topic)>>)

subscriptionDestinations(s) ==
  FilterBoolean(<<s.subscription_endpoint_url, And(s.pubsub_project, s.pubsub_topic), s.arn>>)

\* The destination of a subscription's key without the fall-back to the
\* top-level destination.
SubscriptionDestinationWithoutFallback(w, s) ==
  LET own == Join(FilterBoolean(<<s.subscription_endpoint_url, s.pubsub_project,
                                  s.pubsub_topic, s.arn>>), delimiter)
  IN  IF Boolean(s.path) THEN own \o s.path ELSE own

\* let destination = ...; if (!destination) ...; if (subscription.path) ...
SubscriptionDestination(w, s) ==
  LET own == Join(FilterBoolean(<<s.subscription_endpoint_url, s.pubsub_project,
                                  s.pubsub_topic, s.arn>>), delimiter)
      destination == IF ~Boolean(own) THEN topLevelDestination(w) ELSE own
  IN  IF Boolean(s.path) THEN destination \o s.path ELSE destination

SubscriptionKey(w, s) == s.topic \o delimiter \o SubscriptionDestination(w, s)

\* const path = ['subscriptions', i]
SubscriptionPath(i) == <<"subscriptions", i>>

\* Lines 167-175.
SubscriptionPairCheck(s, i) ==
  Check(Len(FilterBoolean(<<s.pubsub_project, s.pubsub_topic>>)) = 1,
        getFullPubSubValidationError("a pub sub destination"), SubscriptionPath(i))

\* Lines 177-185.
SubscriptionExclusivityCheck(s, i) ==
  Check(Len(subscriptionDestinations(s)) > 1,
        getTooManyDesignationsError("per subscription"), SubscriptionPath(i))

\* The missing-destination check with the negation of topLevelDestinations.length lost.
MissingDestinationCheckNeedingTopLevel(w, s, i) ==
  Check(Len(topLevelDestinations(w)) # 0 /\ Len(subscriptionDestinations(s)) = 0,
        MissingDestinationMessage, SubscriptionPath(i))

\* Lines 187-196.
MissingDestinationCheck(w, s, i) ==
  Check(Len(topLevelDestinations(w)) = 0 /\ Len(subscriptionDestinations(s)) = 0,
        MissingDestinationMessage, SubscriptionPath(i))

\* The path check satisfied with any top-level destination.
PathMissingEndpointCheckAnyDestination(w, s, i) ==
  Check(~Boolean(topLevelDestination(w)) /\ ~Boolean(s.subscription_endpoint_url)
          /\ Boolean(s.path),
        PathMissingEndpointMessage, SubscriptionPath(i))

\* Lines 198-206.
PathMissingEndpointCheck(w, s, i) ==
  Check(~Boolean(w.subscription_endpoint_url) /\ ~Boolean(s.subscription_endpoint_url)
          /\ Boolean(s.path),
        PathMissingEndpointMessage, SubscriptionPath(i))

\* The path check that looks at the arn only.
PathWithIncompatibleDestinationCheckArnOnly(s, i) ==
  Check(Boolean(s.arn) /\ Boolean(s.path),
        PathWithIncompatibleDestinationMessage, SubscriptionPath(i))

\* Lines 208-216.
PathWithIncompatibleDestinationCheck(s, i) ==
  Check((Boolean(s.arn) \/ Boolean(s.pubsub_project)) /\ Boolean(s.path),
        PathWithIncompatibleDestinationMessage, SubscriptionPath(i))

\* Lines 237-247.
DuplicateSubscriptionCheck(w, s, i, set) ==
  Check(Has(set, SubscriptionKey(w, s)),
        DuplicateSubscriptionMessage, SubscriptionPath(i) \o <<s.topic>>)

\* The checks of one subscription with the incompatible-destination check ahead
\* of the missing-endpoint check.
SubscriptionCheckListIncompatibleFirst(w, s, i, set) ==
  <<SubscriptionPairCheck(s, i), SubscriptionExclusivityCheck(s, i),
    MissingDestinationCheck(w, s, i), PathWithIncompatibleDestinationCheck(s, i),
    PathMissingEndpointCheck(w, s, i), DuplicateSubscriptionCheck(w, s, i, set)>>

\* The checks of one subscription with the exclusivity check ahead of the pair check.
SubscriptionCheckListExclusivityFirst(w, s, i, set) ==
  <<SubscriptionExclusivityCheck(s, i), SubscriptionPairCheck(s, i),
    MissingDestinationCheck(w, s, i), PathMissingEndpointCheck(w, s, i),
    PathWithIncompatibleDestinationCheck(s, i), DuplicateSubscriptionCheck(w, s, i, set)>>

\* The checks of one subscription in the order of the code.
SubscriptionCheckList(w, s, i, set) ==
  <<SubscriptionPairCheck(s, i), SubscriptionExclusivityCheck(s, i),
    MissingDestinationCheck(w, s, i), PathMissingEndpointCheck(w, s, i),
    PathWithIncompatibleDestinationCheck(s, i), DuplicateSubscriptionCheck(w, s, i, set)>>

SubscriptionIssues(w, s, i, set) == ReturnAtFirstIssue(SubscriptionCheckList(w, s, i, set))

(***************************************************************************)
(* rewriteConfiguration (link.ts lines 90-113).                            *)
(*                                                                         *)
(* A JavaScript value is a record [t, v]: t is its type; v is the text of  *)
(* a string or boolean, the items of an array in order, or the entries     *)
(* <<key, value>> of an object in key insertion order, which is the order  *)
(* Object.keys, Object.entries and the TOML encoder see.                   *)
(***************************************************************************)
Undefined == [t |-> "undefined", v |-> ""]

String(text) == [t |-> "string", v |-> text]

False == [t |-> "boolean", v |-> "false"]

Array(items) == [t |-> "array", v |-> items]

Object(entries) == [t |-> "object", v |-> entries]

\* The object bound to the parameter `result` of the running call: the code
\* returns that object itself, never a copy of it.
ResultReference == [t |-> "result", v |-> <<>>]

RECURSIVE Same(_, _)
\* Two values with the same content and the same key order at every depth.
Same(a, b) ==
  IF a.t # b.t THEN FALSE
  ELSE IF a.t = "array"
    THEN /\ Len(a.v) = Len(b.v)
         /\ \A k \in 1..Len(a.v) : Same(a.v[k], b.v[k])
  ELSE IF a.t = "object"
    THEN /\ Len(a.v) = Len(b.v)
         /\ \A k \in 1..Len(a.v) : a.v[k][1] = b.v[k][1] /\ Same(a.v[k][2], b.v[k][2])
  ELSE a.v = b.v

\* Object.keys(object)
Keys(entries) == [k \in 1..Len(entries) |-> entries[k][1]]

\* confObj[key]
Get(entries, key) ==
  IF \E k \in 1..Len(entries) : entries[k][1] = key
    THEN entries[CHOOSE k \in 1..Len(entries) : entries[k][1] = key][2]
    ELSE Undefined

\* resultObj[key] = value: a key the object already has keeps its place.
Set(entries, key, value) ==
  IF \E k \in 1..Len(entries) : entries[k][1] = key
    THEN [k \in 1..Len(entries) |->
            IF entries[k][1] = key THEN <<key, value>> ELSE entries[k]]
    ELSE Append(entries, <<key, value>>)

\* delete resultObj[key]
Delete(entries, key) ==
  LET Other(entry) == entry[1] # key IN SelectSeq(entries, Other)

\* value instanceof Object && Object.keys(value).length === 0 (line 103): an
\* array is an Object too, and Object.keys of an array are its indices.
IsEmptyObject(value) ==
  /\ value.t \in {"object", "array"}
  /\ Len(value.v) = 0

(***************************************************************************)
(* zod schemas (app.ts).  A node is a record with its class as `kind`.     *)
(* refine, superRefine and preprocess return a ZodEffects around the       *)
(* schema they are called on.                                              *)
(***************************************************************************)
ZodString == [kind |-> "ZodString"]

ZodEnum == [kind |-> "ZodEnum"]

ZodBoolean == [kind |-> "ZodBoolean"]

ZodOptional(innerType) == [kind |-> "ZodOptional", innerType |-> innerType]

ZodArray(element) == [kind |-> "ZodArray", element |-> element]

ZodObject(shape) == [kind |-> "ZodObject", shape |-> shape]

ZodEffects(inner) == [kind |-> "ZodEffects", schema |-> inner]

\* validateUrl(zod.string()) and ensureHttpsOnlyUrl: refinements of a string.
validateUrl == ZodEffects(ZodEffects(ZodString))

ensureHttpsOnlyUrl == ZodEffects(validateUrl)

WebhookSubscriptionSchema ==
  ZodObject(<< <<"topic", ZodString>>,
               <<"sub_topic", ZodOptional(ZodString)>>,
               <<"format", ZodOptional(ZodEnum)>>,
               <<"include_fields", ZodOptional(ZodArray(ZodString))>>,
               <<"metafield_namespaces", ZodOptional(ZodArray(ZodString))>>,
               <<"subscription_endpoint_url", ZodOptional(ensureHttpsOnlyUrl)>>,
               <<"path", ZodOptional(ZodEffects(ZodString))>>,
               <<"pubsub_project", ZodOptional(ZodString)>>,
               <<"pubsub_topic", ZodOptional(ZodString)>>,
               <<"arn", ZodOptional(ZodString)>> >>)

\* The node of the subscriptions field, inside its .optional().
SubscriptionsSchema == ZodArray(WebhookSubscriptionSchema)

\* zod.object({...}) of lines 67-82, before .superRefine().
WebhooksObject ==
  ZodObject(<< <<"api_version", ZodString>>,
               <<"privacy_compliance",
                 ZodOptional(ZodObject(
                   << <<"customer_deletion_url", ZodOptional(ensureHttpsOnlyUrl)>>,
                      <<"customer_data_request_url", ZodOptional(ensureHttpsOnlyUrl)>>,
                      <<"shop_deletion_url", ZodOptional(ensureHttpsOnlyUrl)>> >>))>>,
               <<"subscription_endpoint_url", ZodOptional(ensureHttpsOnlyUrl)>>,
               <<"pubsub_project", ZodOptional(ZodString)>>,
               <<"pubsub_topic", ZodOptional(ZodString)>>,
               <<"arn", ZodOptional(ZodString)>>,
               <<"topics", ZodOptional(ZodArray(ZodString))>>,
               <<"subscriptions", ZodOptional(SubscriptionsSchema)>> >>)

WebhooksSchema == ZodEffects(WebhooksObject)

AppSchema ==
  ZodObject(<< <<"name", ZodString>>,
               <<"client_id", ZodString>>,
               <<"application_url", validateUrl>>,
               <<"embedded", ZodBoolean>>,
               <<"access_scopes",
                 ZodOptional(ZodObject(
                   << <<"scopes", ZodOptional(ZodString)>>,
                      <<"use_legacy_install_flow", ZodOptional(ZodBoolean)>> >>))>>,
               <<"auth",
                 ZodOptional(ZodObject(
                   << <<"redirect_urls", ZodArray(validateUrl)>> >>))>>,
               <<"webhooks", WebhooksSchema>>,
               <<"app_proxy",
                 ZodOptional(ZodObject(<< <<"url", validateUrl>>,
                                          <<"subpath", ZodString>>,
                                          <<"prefix", ZodString>> >>))>>,
               <<"pos", ZodOptional(ZodObject(<< <<"embedded", ZodBoolean>> >>))>>,
               <<"app_preferences",
                 ZodOptional(ZodObject(<< <<"url", validateUrl>> >>))>>,
               <<"build",
                 ZodOptional(ZodObject(
                   << <<"automatically_update_urls_on_dev", ZodOptional(ZodBoolean)>>,
                      <<"dev_store_url", ZodOptional(ZodString)>> >>))>>,
               <<"extension_directories", ZodOptional(ZodArray(ZodString))>>,
               <<"web_directories", ZodOptional(ZodArray(ZodString))>> >>)

(***************************************************************************)
(* rewriteConfiguration(schema, config, result), lines 90-113.  The        *)
(* operator yields the value the call returns and the entries the object   *)
(* `result` has when the call returns; the returned value holds            *)
(* ResultReference wherever the code returns `result` itself.              *)
(***************************************************************************)
RECURSIVE Dereference(_, _)
\* The value with the object `result` in the places that refer to it.
Dereference(value, result) ==
  IF value.t = "result" THEN Object(result)
  ELSE IF value.t = "array"
    THEN Array([k \in 1..Len(value.v) |-> Dereference(value.v[k], result)])
    ELSE value

RECURSIVE rewriteConfiguration(_, _, _)
RECURSIVE MapItems(_, _, _, _)
RECURSIVE ForEachEntry(_, _, _, _)

\* Line 95: config.map((item) => rewriteConfiguration(schema.element, item,
\* result)), from item k on; every item is given the same object `result`.
MapItems(element, items, k, result) ==
  IF k > Len(items)
    THEN [value |-> Array(<<>>), result |-> result]
    ELSE LET item == rewriteConfiguration(element, items[k], result)
             rest == MapItems(element, items, k + 1, item.result)
         IN  [value |-> Array(<<item.value>> \o rest.value.v),
              result |-> rest.result]

\* Lines 101-108: entries.forEach(...), from entry k of the shape on.
ForEachEntry(entries, k, confObj, result) ==
  IF k > Len(entries)
    THEN result
    ELSE LET key == entries[k][1]
             subSchema == entries[k][2]
             defined == /\ confObj.t = "object"
                        /\ Get(confObj.v, key).t # "undefined"
             call == rewriteConfiguration(subSchema, Get(confObj.v, key), <<>>)
             value == Dereference(call.value, call.result)
             assigned == Set(result, key, value)
             kept == IF IsEmptyObject(value) THEN Delete(assigned, key) ELSE assigned
         IN  ForEachEntry(entries, k + 1, confObj, IF defined THEN kept ELSE result)

\* Line 91 (a null schema) is left out: no shape of app.ts holds one.
rewriteConfiguration(zodSchema, config, result) ==
  IF zodSchema.kind \in {"ZodNullable", "ZodOptional"}
    THEN rewriteConfiguration(zodSchema.innerType, config, result)
  ELSE IF zodSchema.kind = "ZodArray"
    THEN MapItems(zodSchema.element, config.v, 1, result)
  ELSE IF zodSchema.kind = "ZodObject"
    THEN [value |-> ResultReference,
          result |-> ForEachEntry(zodSchema.shape, 1, config, result)]
  ELSE [value |-> config, result |-> result]

\* rewriteConfiguration(schema, configuration, {}) as its caller sees it
\* (line 73).
Rewrite(zodSchema, config) ==
  LET call == rewriteConfiguration(zodSchema, config, <<>>)
  IN  Dereference(call.value, call.result)

(***************************************************************************)
(* State.                                                                  *)
(*   webhooks       the top-level fields of the document under validation  *)
(*   nSubscriptions subscriptions.length                                   *)
(*   subscriptions  the entries of the subscriptions array the loop has    *)
(*                  taken so far, in order (entry i is read at iteration   *)
(*                  i; the entries behind the loop are not read)           *)
(*   topicIndex     number of top-level topics the topics loop has done    *)
(*   subscriptionDestinationsSet  the Set of keys                          *)
(*   issues         the issues added to ctx, in order                      *)
(*   pc             position of the callback                               *)
(***************************************************************************)
VARIABLES webhooks, nSubscriptions, subscriptions, topicIndex,
          subscriptionDestinationsSet, issues, pc

(***************************************************************************)
(* State of the other components of the program.  They do not run while    *)
(* the callback runs and the callback does not touch them.                 *)
(*   schema         name of the zod schema handed to rewriteConfiguration  *)
(*   configuration  the value handed to it (link.ts line 73)               *)
(*   sorted         what the call returned (link.ts line 73)               *)
(*   resorted       what a call on `sorted` returned                       *)
(*   rewriteCalls   number of calls made so far                            *)
(*   specifications the list a plugin hands to                             *)
(*                  registerUIExtensionSpecifications                      *)
(*   pluginReturns  what the hook made from it has returned                *)
(*   allExtensions  App.allExtensions                                      *)
(*   extensionsOfType  what a call of App.extensionsForType has returned   *)
(*   uuids          the argument of the last App.updateExtensionUUIDS      *)
(*   options        the LinkOptions and shouldRenderSuccess of a run of    *)
(*                  link                                                   *)
(*   environment    what the run finds: the local project, the Partners    *)
(*                  account, the file system                               *)
(*   localApp, remoteApp, configFileName  the constants of link            *)
(*   linkPc         position of the run of link                            *)
(*   effects        the effects of the run on its surroundings, in order   *)
(***************************************************************************)
VARIABLES schema, configuration, sorted, resorted, rewriteCalls

VARIABLES specifications, pluginReturns, allExtensions, extensionsOfType

VARIABLES uuids

VARIABLES extensionValidations, appValidation, deployPc

VARIABLES extensionPoints, existingModules, pointIndex, errors, uniqueTargets,
          duplicateTargets, validation, uiPc

VARIABLES targeting, functionFiles, inputQuery, targetPromises, deployConfigResult,
          functionPc

VARIABLES options, environment, localApp, remoteApp, configFileName, linkPc, effects

rewriteVars == <<schema, configuration, sorted, resorted, rewriteCalls>>

extensionVars == <<specifications, pluginReturns, allExtensions, extensionsOfType>>

appVars == <<uuids>>

deployVars == <<extensionValidations, appValidation, deployPc>>

uiVars == <<extensionPoints, existingModules, pointIndex, errors, uniqueTargets,
           duplicateTargets, validation, uiPc>>

functionVars == <<targeting, functionFiles, inputQuery, targetPromises,
                 deployConfigResult, functionPc>>

linkVars == <<options, environment, localApp, remoteApp, configFileName, linkPc, effects>>

otherVars == <<rewriteVars, extensionVars, appVars, linkVars, deployVars, uiVars, functionVars>>

validatorVars == <<webhooks, nSubscriptions, subscriptions, topicIndex,
                   subscriptionDestinationsSet, issues, pc>>

vars == <<webhooks, nSubscriptions, subscriptions, topicIndex,
          subscriptionDestinationsSet, issues, pc, otherVars>>

\* No call of rewriteConfiguration has been made and none is being made.
RewriteIdle ==
  /\ schema = NoValue
  /\ configuration = Undefined
  /\ sorted = Undefined
  /\ resorted = Undefined
  /\ rewriteCalls = 0

\* The callback is not running.
ValidatorIdle ==
  /\ webhooks = NoValue
  /\ nSubscriptions = 0
  /\ subscriptions = <<>>
  /\ topicIndex = 0
  /\ subscriptionDestinationsSet = {}
  /\ issues = <<>>
  /\ pc = "idle"

\* A call that has not been made.
Pending == [status |-> "pending"]

\* No plugin has registered specifications and no app is loaded.
ExtensionsIdle ==
  /\ specifications = <<>>
  /\ pluginReturns = Pending
  /\ allExtensions = <<>>
  /\ extensionsOfType = Pending

\* No call on the loaded app has been made.
AppIdle == uuids = Pending

\* link is not running.
LinkIdle ==
  /\ options = Pending
  /\ environment = Pending
  /\ localApp = Pending
  /\ remoteApp = Pending
  /\ configFileName = NoValue
  /\ linkPc = "idle"
  /\ effects = <<>>

\* preDeployValidation has not been called on the loaded app.
DeployIdle ==
  /\ extensionValidations = <<>>
  /\ appValidation = "pending"
  /\ deployPc = "idle"

\* validateUIExtensionPointConfig is not running.
UiIdle ==
  /\ extensionPoints = <<>>
  /\ existingModules = {}
  /\ pointIndex = 0
  /\ errors = <<>>
  /\ uniqueTargets = <<>>
  /\ duplicateTargets = <<>>
  /\ validation = Pending
  /\ uiPc = "idle"

\* deployConfig of the function specification is not running.
FunctionIdle ==
  /\ targeting = Pending
  /\ functionFiles = {}
  /\ inputQuery = NoValue
  /\ targetPromises = <<>>
  /\ deployConfigResult = Pending
  /\ functionPc = "idle"

OthersIdle == RewriteIdle /\ ExtensionsIdle /\ AppIdle /\ LinkIdle /\ DeployIdle /\ UiIdle /\ FunctionIdle

notRewriteVars == <<validatorVars, extensionVars, appVars, linkVars, deployVars, uiVars, functionVars>>

notExtensionVars == <<validatorVars, rewriteVars, appVars, linkVars, deployVars, uiVars, functionVars>>

NotRewriteIdle == ValidatorIdle /\ ExtensionsIdle /\ AppIdle /\ LinkIdle /\ DeployIdle /\ UiIdle /\ FunctionIdle

NotExtensionsIdle == ValidatorIdle /\ RewriteIdle /\ AppIdle /\ LinkIdle /\ DeployIdle /\ UiIdle /\ FunctionIdle

notAppVars == <<validatorVars, rewriteVars, linkVars, deployVars, uiVars, functionVars>>

NotAppIdle == ValidatorIdle /\ RewriteIdle /\ LinkIdle /\ DeployIdle /\ UiIdle /\ FunctionIdle

\* link runs rewriteConfiguration itself (line 73).
notLinkVars == <<validatorVars, extensionVars, appVars, deployVars, uiVars, functionVars>>

NotLinkIdle == ValidatorIdle /\ ExtensionsIdle /\ AppIdle /\ DeployIdle /\ UiIdle /\ FunctionIdle

notDeployVars == <<validatorVars, rewriteVars, appVars, linkVars, uiVars, functionVars>>

NotDeployIdle == ValidatorIdle /\ RewriteIdle /\ AppIdle /\ LinkIdle /\ UiIdle /\ FunctionIdle

notUiVars == <<validatorVars, rewriteVars, extensionVars, appVars, linkVars, deployVars, functionVars>>

NotUiIdle == ValidatorIdle /\ RewriteIdle /\ ExtensionsIdle /\ AppIdle /\ LinkIdle /\ DeployIdle /\ FunctionIdle

notFunctionVars == <<validatorVars, rewriteVars, extensionVars, appVars, linkVars, deployVars, uiVars>>

NotFunctionIdle == ValidatorIdle /\ RewriteIdle /\ ExtensionsIdle /\ AppIdle /\ LinkIdle /\ DeployIdle /\ UiIdle

Init ==
  /\ webhooks \in Webhooks
  /\ nSubscriptions \in 0..MaxSubscriptions
  /\ subscriptions = <<>>
  /\ topicIndex = 0
  /\ subscriptionDestinationsSet = {}
  /\ issues = <<>>
  /\ pc = "topLevel"
  /\ OthersIdle

\* Lines 86-129: the four top-level checks.
TopLevelChecks ==
  /\ pc = "topLevel"
  /\ LET added == TopLevelIssues(webhooks, nSubscriptions)
     IN  /\ issues' = issues \o added
         /\ pc' = IF added # <<>> THEN "done" ELSE "topics"
  /\ UNCHANGED <<webhooks, nSubscriptions, subscriptions, topicIndex,
                 subscriptionDestinationsSet>>
  /\ UNCHANGED otherVars

\* Lines 139-155: one iteration of `for (const topic of topics)`.
TopLevelTopic ==
  /\ pc = "topics"
  /\ Boolean(topLevelDestination(webhooks)) /\ Len(webhooks.topics) # 0
  /\ topicIndex < Len(webhooks.topics)
  /\ LET topic == webhooks.topics[topicIndex + 1]
         added == TopicIssues(webhooks, topic, subscriptionDestinationsSet)
     IN  /\ issues' = issues \o added
         /\ IF added # <<>>
              THEN /\ pc' = "done"
                   /\ UNCHANGED subscriptionDestinationsSet
              ELSE /\ pc' = pc
                   /\ subscriptionDestinationsSet' =
                        subscriptionDestinationsSet \cup {TopLevelKey(webhooks, topic)}
  /\ topicIndex' = topicIndex + 1
  /\ UNCHANGED <<webhooks, nSubscriptions, subscriptions>>
  /\ UNCHANGED otherVars

\* Line 139 false, or the topics loop has ended.
TopicsDone ==
  /\ pc = "topics"
  /\ \/ ~(Boolean(topLevelDestination(webhooks)) /\ Len(webhooks.topics) # 0)
     \/ topicIndex = Len(webhooks.topics)
  /\ pc' = "subscriptions"
  /\ UNCHANGED <<webhooks, nSubscriptions, subscriptions, topicIndex,
                 subscriptionDestinationsSet, issues>>
  /\ UNCHANGED otherVars

\* Lines 159-250: one iteration of `for (const [i, subscription] of subscriptions.entries())`.
ValidateSubscription ==
  /\ pc = "subscriptions"
  /\ Len(subscriptions) < nSubscriptions
  /\ \E subscription \in Subscriptions :
       LET i == Len(subscriptions)
           added == SubscriptionIssues(webhooks, subscription, i, subscriptionDestinationsSet)
       IN  /\ subscriptions' = Append(subscriptions, subscription)
           /\ issues' = issues \o added
           /\ IF added # <<>>
                THEN /\ pc' = "done"
                     /\ UNCHANGED subscriptionDestinationsSet
                ELSE /\ pc' = pc
                     /\ subscriptionDestinationsSet' =
                          subscriptionDestinationsSet \cup {SubscriptionKey(webhooks, subscription)}
  /\ UNCHANGED <<webhooks, nSubscriptions, topicIndex>>
  /\ UNCHANGED otherVars

\* Line 158 false, or the subscriptions loop has ended: the callback returns.
SubscriptionsDone ==
  /\ pc = "subscriptions"
  /\ Len(subscriptions) = nSubscriptions
  /\ pc' = "done"
  /\ UNCHANGED <<webhooks, nSubscriptions, subscriptions, topicIndex,
                 subscriptionDestinationsSet, issues>>
  /\ UNCHANGED otherVars

Next ==
  \/ TopLevelChecks
  \/ TopLevelTopic
  \/ TopicsDone
  \/ ValidateSubscription
  \/ SubscriptionsDone

Spec == Init /\ [][Next]_vars

(***************************************************************************)
(* Calls of rewriteConfiguration.  The inputs are the values a schema      *)
(* accepts, cut down by a sample: the optional keys that may be present,   *)
(* the strings a string field may hold, arrays of at most MaxItems items,  *)
(* and two insertion orders of every object (the order of the schema and   *)
(* the reverse of it).                                                     *)
(***************************************************************************)
MaxItems == 2

Reverse(seq) == [k \in 1..Len(seq) |-> seq[Len(seq) + 1 - k]]

InsertionOrders(entries) == {entries, Reverse(entries)}

RECURSIVE ValuesOf(_, _)
RECURSIVE Mappings(_, _, _)

\* The entries, in schema order, of the sampled objects of a shape from its
\* entry k on.
Mappings(entries, k, sample) ==
  IF k > Len(entries)
    THEN {<<>>}
    ELSE LET key == entries[k][1]
             subSchema == entries[k][2]
             without == Mappings(entries, k + 1, sample)
             with == {<< <<key, value>> >> \o rest :
                        value \in ValuesOf(subSchema, sample), rest \in without}
         IN  IF subSchema.kind # "ZodOptional" THEN with
             ELSE IF key \in sample.optional THEN with \cup without
             ELSE without

ValuesOf(zodSchema, sample) ==
  IF zodSchema.kind = "ZodOptional" THEN ValuesOf(zodSchema.innerType, sample)
  ELSE IF zodSchema.kind = "ZodEffects" THEN ValuesOf(zodSchema.schema, sample)
  ELSE IF zodSchema.kind = "ZodArray"
    THEN {Array(items) : items \in SeqsUpTo(ValuesOf(zodSchema.element, sample), MaxItems)}
  ELSE IF zodSchema.kind = "ZodObject"
    THEN {Object(entries) :
            entries \in UNION {InsertionOrders(mapping) :
                                 mapping \in Mappings(zodSchema.shape, 1, sample)}}
  ELSE IF zodSchema.kind = "ZodBoolean" THEN {False}
  ELSE IF zodSchema.kind = "ZodEnum" THEN {String("json")}
  ELSE {String(text) : text \in sample.strings}

\* The schemas a call is made with: AppSchema (line 73) and, for the array
\* branch on objects, the node of the subscriptions field.
Schemas == {"AppSchema", "SubscriptionsSchema"}

SchemaNamed(name) == IF name = "AppSchema" THEN AppSchema ELSE SubscriptionsSchema

Sample(name) ==
  IF name = "AppSchema"
    THEN [optional |-> {"access_scopes", "scopes", "privacy_compliance",
                        "customer_deletion_url", "extension_directories"},
          strings |-> {"a"}]
    ELSE [optional |-> {"sub_topic", "format"},
          strings |-> {"orders/create", "products/update"}]

\* A configuration as the loader holds it in memory: with the key `path`,
\* which AppSchema does not declare, and here with an empty name.
InMemory(config) ==
  Object(<< <<"path", String("shopify.app.toml")>> >>
           \o Set(config.v, "name", String("")))

\* The configurations a call is made with.
Configurations(name) ==
  ValuesOf(SchemaNamed(name), Sample(name))
    \cup IF name = "AppSchema"
           THEN {InMemory(config) : config \in ValuesOf(AppSchema, Sample(name))}
           ELSE {}

RewriteInit ==
  /\ schema \in Schemas
  /\ configuration \in Configurations(schema)
  /\ sorted = Undefined
  /\ resorted = Undefined
  /\ rewriteCalls = 0
  /\ NotRewriteIdle

\* Line 73: const sorted = rewriteConfiguration(AppSchema, configuration, {})
RewriteConfiguration ==
  /\ rewriteCalls = 0
  /\ sorted' = Rewrite(SchemaNamed(schema), configuration)
  /\ rewriteCalls' = 1
  /\ UNCHANGED <<schema, configuration, resorted, notRewriteVars>>

\* The same call on the value the first call returned.
RewriteSorted ==
  /\ rewriteCalls = 1
  /\ resorted' = Rewrite(SchemaNamed(schema), sorted)
  /\ rewriteCalls' = 2
  /\ UNCHANGED <<schema, configuration, sorted, notRewriteVars>>

RewriteNext ==
  \/ RewriteConfiguration
  \/ RewriteSorted

SpecRewrite == RewriteInit /\ [][RewriteNext]_vars

(***************************************************************************)
(* Extension specifications and the extensions of an app.                  *)
(*                                                                         *)
(* A specification is a record of its identifier and its                   *)
(* additionalIdentifiers; an ExtensionInstance is a record of its type,    *)
(* its localIdentifier and its devUUID.                                    *)
(***************************************************************************)
MaxSpecifications == 2

MaxExtensions == 2

\* function.ts lines 53-64.
FunctionSpecification ==
  [identifier |-> "function",
   additionalIdentifiers |-> {"order_discounts", "cart_checkout_validation",
                              "cart_transform", "delivery_customization",
                              "payment_customization", "product_discounts",
                              "shipping_discounts", "fulfillment_constraints"}]

\* The specifications a plugin may hand over: the function specification, a
\* second one claiming 'function', one claiming an alias of the function
\* specification, and one that collides with none.
SampleSpecifications ==
  {FunctionSpecification,
   [identifier |-> "function", additionalIdentifiers |-> {}],
   [identifier |-> "order_discounts", additionalIdentifiers |-> {}],
   [identifier |-> "ui_extension", additionalIdentifiers |-> {}]}

ExtensionTypes == {"function", "order_discounts", "ui_extension"}

LocalIdentifiers == {"first", "second"}

\* A loaded extension has the devUUID its construction gave it (part_000
\* line 305).
ExtensionInstances ==
  [type : ExtensionTypes, localIdentifier : LocalIdentifiers,
   devUUID : {"test-ui-extension-uuid"}]

\* The arguments of extensionsForType.
SpecificationArguments ==
  [identifier : ExtensionTypes, externalIdentifier : ExtensionTypes]

ExtensionsInit ==
  /\ specifications \in SeqsUpTo(SampleSpecifications, MaxSpecifications)
  /\ pluginReturns = Pending
  /\ allExtensions \in SeqsUpTo(ExtensionInstances, MaxExtensions)
  /\ extensionsOfType = Pending
  /\ NotExtensionsIdle

\* extension.ts lines 39-43: the hook returns the list it was given.
registerUIExtensionSpecifications(list) == [status |-> "returned", value |-> list]

\* The plugin's hook runs.
RegisterUIExtensionSpecifications ==
  /\ pluginReturns.status = "pending"
  /\ pluginReturns' = registerUIExtensionSpecifications(specifications)
  /\ UNCHANGED <<specifications, allExtensions, extensionsOfType, notExtensionVars>>

\* app.ts line 484: the test of the filter, with only the identifier.
ExtensionMatchesIdentifierOnly(extension, specification) ==
  extension.type = specification.identifier

\* app.ts line 484: the test of the filter.
ExtensionMatches(extension, specification) ==
  \/ extension.type = specification.identifier
  \/ extension.type = specification.externalIdentifier

\* app.ts lines 482-486: this.allExtensions.filter(...)
extensionsForType(extensions, specification) ==
  LET Matches(extension) == ExtensionMatches(extension, specification)
  IN  SelectSeq(extensions, Matches)

ExtensionsForType ==
  /\ extensionsOfType.status = "pending"
  /\ \E specification \in SpecificationArguments :
       extensionsOfType' = [status |-> "returned",
                            specification |-> specification,
                            value |-> extensionsForType(allExtensions, specification)]
  /\ UNCHANGED <<specifications, pluginReturns, allExtensions, notExtensionVars>>

ExtensionsNext ==
  \/ RegisterUIExtensionSpecifications
  \/ ExtensionsForType

SpecExtensions == ExtensionsInit /\ [][ExtensionsNext]_vars

(***************************************************************************)
(* App.updateExtensionUUIDS (app.ts lines 488-492).                        *)
(***************************************************************************)
\* The values of a uuids object; the empty string is a string like another.
UuidValues == {"", "uuid-1"}

\* uuids: {[key: string]: string}, an object with some of the local
\* identifiers as keys.
UuidMaps == UNION {[keys -> UuidValues] : keys \in SUBSET LocalIdentifiers}

\* object[key] || fallback
LogicalOr(object, key, fallback) ==
  IF key \in DOMAIN object /\ object[key] # "" THEN object[key] ELSE fallback

\* object[key] ?? fallback (line 490)
NullishCoalescing(object, key, fallback) ==
  IF key \in DOMAIN object THEN object[key] ELSE fallback

\* Lines 489-491: the forEach over this.allExtensions.
updateExtensionUUIDS(extensions, object) ==
  [k \in 1..Len(extensions) |->
     [extensions[k] EXCEPT
        !.devUUID = NullishCoalescing(object, extensions[k].localIdentifier, @)]]

AppInit ==
  /\ allExtensions \in SeqsUpTo(ExtensionInstances, MaxExtensions)
  /\ uuids = Pending
  /\ specifications = <<>>
  /\ pluginReturns = Pending
  /\ extensionsOfType = Pending
  /\ NotAppIdle

UpdateExtensionUUIDS ==
  /\ \E object \in UuidMaps :
       /\ allExtensions' = updateExtensionUUIDS(allExtensions, object)
       /\ uuids' = [status |-> "applied", value |-> object]
  /\ UNCHANGED <<specifications, pluginReturns, extensionsOfType, notAppVars>>

AppNext == UpdateExtensionUUIDS

SpecApp == AppInit /\ [][AppNext]_vars

(***************************************************************************)
(* App.preDeployValidation (app.ts lines 463-476) and the                  *)
(* preDeployValidation of the function specification (function.ts lines    *)
(* 118-126).                                                               *)
(*                                                                         *)
(* An extension is here a record of its configuration type, its handle,    *)
(* the ui.handle of its configuration (NoValue when it has none) and       *)
(* whether a file exists at its outputPath.  A promise is "pending",       *)
(* "fulfilled" or "rejected".                                              *)
(***************************************************************************)
DeployableExtensions ==
  [type : {"function", "ui_extension"}, handle : {"a", "b"},
   uiHandle : {NoValue, "a"}, outputExists : BOOLEAN]

isFunctionExtension(ext) == ext.type = "function"

\* Lines 464-466.
HasUiHandle(ext) == isFunctionExtension(ext) /\ Boolean(ext.uiHandle)

\* Lines 518-520: the first extension with the handle, 0 when there is none.
findExtensionByHandle(extensions, handle) ==
  IF \E k \in 1..Len(extensions) : extensions[k].handle = handle
    THEN CHOOSE k \in 1..Len(extensions) :
           /\ extensions[k].handle = handle
           /\ \A j \in 1..(k - 1) : extensions[j].handle # handle
    ELSE 0

\* Lines 495-516: whether errors are returned.
validateFunctionExtensionsWithUiHandle(extensions) ==
  \E k \in 1..Len(extensions) :
    /\ HasUiHandle(extensions[k])
    /\ LET matching == findExtensionByHandle(extensions, extensions[k].uiHandle)
       IN  \/ matching = 0
           \/ extensions[matching].type # "ui_extension"

\* function.ts lines 118-126; a specification without preDeployValidation
\* has nothing to reject.
preDeployValidation(ext) ==
  IF isFunctionExtension(ext) /\ ~ext.outputExists THEN "rejected" ELSE "fulfilled"

\* An item handed to Promise.all: a promise, or a value that is not one
\* (an array of promises is such a value).
PromiseItem(state) == [promise |-> TRUE, state |-> state]

ValueItem(value) == [promise |-> FALSE, value |-> value]

\* Promise.all(this.allExtensions.map(...)): the promises themselves as items.
PromiseAllOfPromises(promises) == [k \in 1..Len(promises) |-> PromiseItem(promises[k])]

\* Line 475: Promise.all([this.allExtensions.map(...)]), an array whose one
\* element is the array of promises.
PromiseAllArgument(promises) == << ValueItem(promises) >>

\* Promise.all: rejected once a promise among the items is, fulfilled once
\* every promise among the items is; an item that is not a promise counts
\* as fulfilled.
PromiseAll(items) ==
  IF \E k \in 1..Len(items) : items[k].promise /\ items[k].state = "rejected"
    THEN "rejected"
  ELSE IF \A k \in 1..Len(items) : items[k].promise => items[k].state = "fulfilled"
    THEN "fulfilled"
  ELSE "pending"

DeployInit ==
  /\ allExtensions \in SeqsUpTo(DeployableExtensions, MaxExtensions)
  /\ extensionValidations = <<>>
  /\ appValidation = "pending"
  /\ deployPc = "preDeployValidation"
  /\ specifications = <<>>
  /\ pluginReturns = Pending
  /\ extensionsOfType = Pending
  /\ NotDeployIdle

\* Lines 464-475 up to the await: the throw of line 471, or the calls of
\* ext.preDeployValidation() made by the map.
PreDeployValidation ==
  /\ deployPc = "preDeployValidation"
  /\ IF validateFunctionExtensionsWithUiHandle(allExtensions)
       THEN /\ appValidation' = "rejected"
            /\ extensionValidations' = extensionValidations
            /\ deployPc' = "done"
       ELSE /\ appValidation' = appValidation
            /\ extensionValidations' = [k \in 1..Len(allExtensions) |-> "pending"]
            /\ deployPc' = "await"
  /\ UNCHANGED <<extensionVars, notDeployVars>>

\* The preDeployValidation of one extension settles.
ExtensionPreDeployValidation ==
  /\ \E k \in 1..Len(extensionValidations) :
       /\ extensionValidations[k] = "pending"
       /\ extensionValidations' =
            [extensionValidations EXCEPT ![k] = preDeployValidation(allExtensions[k])]
  /\ UNCHANGED <<appValidation, deployPc, extensionVars, notDeployVars>>

\* Line 475: the awaited Promise.all settles, and with it the call.
AwaitPromiseAll ==
  /\ deployPc = "await"
  /\ PromiseAll(PromiseAllArgument(extensionValidations)) # "pending"
  /\ appValidation' = PromiseAll(PromiseAllArgument(extensionValidations))
  /\ deployPc' = "done"
  /\ UNCHANGED <<extensionValidations, extensionVars, notDeployVars>>

DeployNext ==
  \/ PreDeployValidation
  \/ ExtensionPreDeployValidation
  \/ AwaitPromiseAll

SpecDeploy == DeployInit /\ [][DeployNext]_vars

(***************************************************************************)
(* validateUIExtensionPointConfig (ui_extension.ts lines 76-115).          *)
(*                                                                         *)
(* An extension point is a record of its module and its target; the file   *)
(* system is the set of the modules that exist in the directory.  A Result *)
(* is a record of whether it is ok and of its value or its error.          *)
(***************************************************************************)
MaxExtensionPoints == 3

ExtensionPoints ==
  SeqsUpTo([module : {"a.js", "b.js"}, target : {"t1", "t2"}], MaxExtensionPoints)

directory == "dir"

joinPath(base, name) == base \o "/" \o name

ok(value) == [ok |-> TRUE, value |-> value]

err(error) == [ok |-> FALSE, value |-> error]

\* Lines 91-94.
ModuleNotFoundMessage(point) ==
  "Couldn't find " \o joinPath(directory, point.module)
    \o "\nPlease check the module path for " \o point.target

\* Line 105.
DuplicateTargetsMessage(targets) ==
  "Duplicate targets found: " \o Join(targets, ", ")
    \o "\nExtension point targets must be unique"

\* Lines 109-111.
CheckConfigurationMessage ==
  "Please check the configuration in " \o joinPath(directory, "shopify.ui.extension.toml")

\* uniqueTargets.indexOf(target) === -1
NotIn(list, item) == \A k \in 1..Len(list) : list[k] # item

UiInit ==
  /\ extensionPoints \in ExtensionPoints
  /\ existingModules \in SUBSET {"a.js", "b.js"}
  /\ pointIndex = 0
  /\ errors = <<>>
  /\ uniqueTargets = <<>>
  /\ duplicateTargets = <<>>
  /\ validation = Pending
  /\ uiPc = "loop"
  /\ NotUiIdle

\* One iteration of a loop that leaves at the first missing module.
ValidateExtensionPointFailFast ==
  /\ uiPc = "loop"
  /\ pointIndex < Len(extensionPoints)
  /\ LET point == extensionPoints[pointIndex + 1]
     IN  IF point.module \notin existingModules
           THEN /\ errors' = Append(errors, ModuleNotFoundMessage(point))
                /\ pointIndex' = Len(extensionPoints)
                /\ UNCHANGED <<uniqueTargets, duplicateTargets>>
           ELSE /\ errors' = errors
                /\ pointIndex' = pointIndex + 1
                /\ IF NotIn(uniqueTargets, point.target)
                     THEN /\ uniqueTargets' = Append(uniqueTargets, point.target)
                          /\ duplicateTargets' = duplicateTargets
                     ELSE /\ uniqueTargets' = uniqueTargets
                          /\ duplicateTargets' = Append(duplicateTargets, point.target)
  /\ UNCHANGED <<extensionPoints, existingModules, validation, uiPc, notUiVars>>

\* Lines 84-102: one iteration of the loop over extensionPoints.
ValidateExtensionPoint ==
  /\ uiPc = "loop"
  /\ pointIndex < Len(extensionPoints)
  /\ LET point == extensionPoints[pointIndex + 1]
     IN  /\ errors' = IF point.module \notin existingModules
                        THEN Append(errors, ModuleNotFoundMessage(point))
                        ELSE errors
         /\ IF NotIn(uniqueTargets, point.target)
              THEN /\ uniqueTargets' = Append(uniqueTargets, point.target)
                   /\ duplicateTargets' = duplicateTargets
              ELSE /\ uniqueTargets' = uniqueTargets
                   /\ duplicateTargets' = Append(duplicateTargets, point.target)
  /\ pointIndex' = pointIndex + 1
  /\ UNCHANGED <<extensionPoints, existingModules, validation, uiPc, notUiVars>>

\* Lines 104-114: after the loop.
ValidateReturn ==
  /\ uiPc = "loop"
  /\ pointIndex = Len(extensionPoints)
  /\ LET withDuplicates ==
           IF Len(duplicateTargets) # 0
             THEN Append(errors, DuplicateTargetsMessage(duplicateTargets))
             ELSE errors
     IN  IF Len(withDuplicates) # 0
           THEN /\ errors' = Append(withDuplicates, CheckConfigurationMessage)
                /\ validation' = err(Join(errors', "\n\n"))
           ELSE /\ errors' = withDuplicates
                /\ validation' = ok("{}")
  /\ uiPc' = "returned"
  /\ UNCHANGED <<extensionPoints, existingModules, pointIndex, uniqueTargets,
                 duplicateTargets, notUiVars>>

UiNext ==
  \/ ValidateExtensionPoint
  \/ ValidateReturn

SpecUi == UiInit /\ [][UiNext]_vars

(***************************************************************************)
(* deployConfig of the function specification (function.ts lines 72-117)   *)
(* and readInputQuery (lines 129-138).                                     *)
(*                                                                         *)
(* The configuration is its targeting: not given, or a list of records of  *)
(* a target and an input_query (NoValue when the entry declares none).     *)
(* The file system is the set of the paths at which a file exists; the     *)
(* contents of a file are told apart by its path.                          *)
(***************************************************************************)
MaxTargeting == 2

InputQueryFiles == {"input.graphql", "q1.graphql", "q2.graphql"}

TargetingEntries ==
  [target : {"t"}, input_query : {NoValue, "q1.graphql", "q2.graphql"}]

Targetings ==
  {[given |-> FALSE, value |-> <<>>]}
    \cup {[given |-> TRUE, value |-> value] :
            value \in SeqsUpTo(TargetingEntries, MaxTargeting)}

fileExists(files, path) == path \in files

readFile(path) == "contents of " \o path

\* readInputQuery that yields undefined when there is no file.
readInputQueryOrUndefined(files, path) ==
  IF fileExists(files, path)
    THEN [state |-> "fulfilled", value |-> readFile(path)]
    ELSE [state |-> "fulfilled", value |-> NoValue]

\* Lines 129-138.
readInputQuery(files, path) ==
  IF fileExists(files, path)
    THEN [state |-> "fulfilled", value |-> readFile(path)]
    ELSE [state |-> "rejected", value |-> NoValue]

\* Lines 82-90: the async callback of the map, for one targeting entry.
TargetOf(files, entry) ==
  LET read == IF Boolean(entry.input_query)
                THEN readInputQuery(files, joinPath(directory, entry.input_query))
                ELSE [state |-> "fulfilled", value |-> NoValue]
  IN  [state |-> read.state, handle |-> entry.target, input_query |-> read.value]

PendingTarget == [state |-> "pending", handle |-> NoValue, input_query |-> NoValue]

FunctionInit ==
  /\ targeting \in Targetings
  /\ functionFiles \in SUBSET {joinPath(directory, name) : name \in InputQueryFiles}
  /\ inputQuery = NoValue
  /\ targetPromises = <<>>
  /\ deployConfigResult = Pending
  /\ functionPc = "deployConfig"
  /\ NotFunctionIdle

\* Lines 73-81: input.graphql is read when it exists, and the map over
\* config.targeting starts one promise for every entry.
DeployConfig ==
  /\ functionPc = "deployConfig"
  /\ inputQuery' = IF fileExists(functionFiles, joinPath(directory, "input.graphql"))
                     THEN readFile(joinPath(directory, "input.graphql"))
                     ELSE NoValue
  /\ targetPromises' = [k \in 1..Len(targeting.value) |-> PendingTarget]
  /\ functionPc' = "await"
  /\ UNCHANGED <<targeting, functionFiles, deployConfigResult, notFunctionVars>>

\* Lines 82-90: the callback of one targeting entry settles.
ReadInputQuery ==
  /\ \E k \in 1..Len(targetPromises) :
       /\ targetPromises[k].state = "pending"
       /\ targetPromises' =
            [targetPromises EXCEPT ![k] = TargetOf(functionFiles, targeting.value[k])]
  /\ UNCHANGED <<targeting, functionFiles, inputQuery, deployConfigResult, functionPc,
                 notFunctionVars>>

\* Lines 79-81 and 92-116: the awaited Promise.all settles, and deployConfig
\* returns its object or rejects with the AbortError of readInputQuery.
DeployConfigReturn ==
  /\ functionPc = "await"
  /\ LET all == PromiseAll([k \in 1..Len(targetPromises) |->
                              PromiseItem(targetPromises[k].state)])
     IN  /\ all # "pending"
         /\ deployConfigResult' =
              IF all = "rejected"
                THEN [status |-> "AbortError", input_query |-> NoValue,
                      targets |-> [given |-> FALSE, value |-> <<>>]]
                ELSE [status |-> "returned", input_query |-> inputQuery,
                      targets |->
                        [given |-> targeting.given,
                         value |-> [k \in 1..Len(targetPromises) |->
                                      [handle |-> targetPromises[k].handle,
                                       input_query |-> targetPromises[k].input_query]]]]
  /\ functionPc' = "done"
  /\ UNCHANGED <<targeting, functionFiles, inputQuery, targetPromises, notFunctionVars>>

FunctionNext ==
  \/ DeployConfig
  \/ ReadInputQuery
  \/ DeployConfigReturn

SpecFunction == FunctionInit /\ [][FunctionNext]_vars

(***************************************************************************)
(* link (link.ts lines 33-65) and the functions it calls.                  *)
(*                                                                         *)
(* A local configuration is a record of the schema it satisfies and its    *)
(* scopes (`scopes` of a legacy configuration, `access_scopes.scopes` of a *)
(* current one; NoValue when undefined or empty: the code only tests the   *)
(* truthiness of both).  A remote app is a record of the fields of an      *)
(* OrganizationApp the merge reads.                                        *)
(***************************************************************************)
MaxScopes == 2

True == [t |-> "boolean", v |-> "true"]

LocalConfigurations ==
  [kind : {"legacy", "current"}, scopes : {NoValue, "read_products"}]

\* An empty app whose configuration is one of the current schema.
EmptyAppWithCurrentConfiguration ==
  [configuration |-> [kind |-> "current", scopes |-> NoValue]]

\* app.ts lines 521-526: {scopes: '', extension_directories: [], path: ''}
EmptyApp == [configuration |-> [kind |-> "legacy", scopes |-> NoValue]]

\* app.ts lines 307-310
isLegacyAppSchema(item) == item.kind = "legacy"

\* app.ts lines 316-319
isCurrentAppSchema(item) == item.kind = "current"

\* requestedAccessScopes?: string[]
RequestedAccessScopes ==
  {[given |-> FALSE, value |-> <<>>]}
    \cup {[given |-> TRUE, value |-> value] :
            value \in SeqsUpTo({"write_orders", "read_themes"}, MaxScopes)}

\* part_000 lines 255-267 (testOrganizationApp), with the scopes requested
\* upstream and the privacy webhook of the app.
RemoteApps ==
  [apiKey : {"api-key"}, title : {"app1"},
   requestedAccessScopes : RequestedAccessScopes,
   customerDeletionUrl : {NoValue, "https://a.com"}]

\* Lines 220-243.  The local branches come before the remote one.
getAccessScopesLocalFirst(local, remote) ==
  IF isLegacyAppSchema(local.configuration) /\ Boolean(local.configuration.scopes)
    THEN Object(<< <<"scopes", String(local.configuration.scopes)>>,
                   <<"use_legacy_install_flow", True>> >>)
  ELSE IF isCurrentAppSchema(local.configuration) /\ Boolean(local.configuration.scopes)
    THEN Object(<< <<"scopes", String(local.configuration.scopes)>>,
                   <<"use_legacy_install_flow", True>> >>)
  ELSE IF remote.requestedAccessScopes.given
    THEN Object(<< <<"scopes", String(Join(remote.requestedAccessScopes.value, ","))>> >>)
  ELSE Object(<< <<"use_legacy_install_flow", True>> >>)

\* Lines 220-243.
getAccessScopes(local, remote) ==
  IF remote.requestedAccessScopes.given
    THEN Object(<< <<"scopes", String(Join(remote.requestedAccessScopes.value, ","))>> >>)
  ELSE IF isLegacyAppSchema(local.configuration) /\ Boolean(local.configuration.scopes)
    THEN Object(<< <<"scopes", String(local.configuration.scopes)>>,
                   <<"use_legacy_install_flow", True>> >>)
  ELSE IF isCurrentAppSchema(local.configuration) /\ Boolean(local.configuration.scopes)
    THEN Object(<< <<"scopes", String(local.configuration.scopes)>>,
                   <<"use_legacy_install_flow", True>> >>)
  ELSE Object(<< <<"use_legacy_install_flow", True>> >>)

\* Lines 165-218.  The remote apps of the sample have no applicationUrl,
\* embedded, webhookApiVersion, redirectUrlWhitelist, posEmbedded, appProxy
\* and preferencesUrl, and the local configurations no extension_directories
\* and web_directories.
mergeAppConfiguration(local, remote) ==
  LET privacy_compliance ==
        Object(<< <<"customer_data_request_url", Undefined>>,
                  <<"customer_deletion_url", String(remote.customerDeletionUrl)>>,
                  <<"shop_deletion_url", Undefined>> >>)
      webhooksSection ==
        Object(<< <<"api_version", String("2023-07")>> >>
                 \o IF Boolean(remote.customerDeletionUrl)
                      THEN << <<"privacy_compliance", privacy_compliance>> >>
                      ELSE <<>>)
  IN  Object(<< <<"client_id", String(remote.apiKey)>>,
                <<"name", String(remote.title)>>,
                <<"application_url", Undefined>>,
                <<"embedded", True>>,
                <<"webhooks", webhooksSection>>,
                <<"auth", Object(<< <<"redirect_urls", Undefined>> >>)>>,
                <<"pos", Object(<< <<"embedded", False>> >>)>>,
                <<"access_scopes", getAccessScopes(local, remote)>> >>)

LinkOptions ==
  [apiKey : {NoValue, "api-key"}, configName : {NoValue, "staging"},
   shouldRenderSuccess : BOOLEAN]

\* What a run finds: whether the local app loads and with which
\* configuration; whether the remote app is resolved (an app matches the
\* apiKey, or fetchOrCreateOrganizationApp returns one) and which it is;
\* whether the file can be written.
Environments ==
  [loads : BOOLEAN, configuration : LocalConfigurations,
   resolves : BOOLEAN, app : RemoteApps, writable : BOOLEAN]

LinkInit ==
  /\ options \in LinkOptions
  /\ environment \in Environments
  /\ localApp = Pending
  /\ remoteApp = Pending
  /\ configFileName = NoValue
  /\ linkPc = "loadAppConfigFromDefaultToml"
  /\ effects = <<>>
  /\ RewriteIdle
  /\ NotLinkIdle

\* Lines 115-129, called at line 34: every failure of the load is caught.
LoadAppConfigFromDefaultToml ==
  /\ linkPc = "loadAppConfigFromDefaultToml"
  /\ localApp' = IF environment.loads
                   THEN [configuration |-> environment.configuration]
                   ELSE EmptyApp
  /\ linkPc' = "loadRemoteApp"
  /\ UNCHANGED <<options, environment, remoteApp, configFileName, effects,
                 rewriteVars, notLinkVars>>

\* Lines 131-146, called at line 35: the call throws when no app is found.
LoadRemoteApp ==
  /\ linkPc = "loadRemoteApp"
  /\ IF environment.resolves
       THEN remoteApp' = environment.app /\ linkPc' = "loadConfigurationFileName"
       ELSE remoteApp' = remoteApp /\ linkPc' = "failed"
  /\ UNCHANGED <<options, environment, localApp, configFileName, effects,
                 rewriteVars, notLinkVars>>

\* configurationFileNames.app
defaultAppConfigurationFileName == "shopify.app.toml"

\* getAppConfigurationFileName(configName) and line 162.
AppConfigurationFileName(configName) == "shopify.app." \o configName \o ".toml"

\* Lines 148-163, called at line 36.
LoadConfigurationFileName ==
  /\ linkPc = "loadConfigurationFileName"
  /\ IF Boolean(options.configName)
       THEN /\ configFileName' = AppConfigurationFileName(options.configName)
            /\ effects' = effects
     ELSE IF isLegacyAppSchema(localApp.configuration)
       THEN /\ configFileName' = defaultAppConfigurationFileName
            /\ effects' = effects
     ELSE /\ configFileName' = AppConfigurationFileName("selected")
          /\ effects' = Append(effects, "selectConfigName")
  /\ linkPc' = "mergeAppConfiguration"
  /\ UNCHANGED <<options, environment, localApp, remoteApp, rewriteVars, notLinkVars>>

\* Line 39.
MergeAppConfiguration ==
  /\ linkPc = "mergeAppConfiguration"
  /\ configuration' = mergeAppConfiguration(localApp, remoteApp)
  /\ linkPc' = "writeAppConfigurationFile"
  /\ UNCHANGED <<options, environment, localApp, remoteApp, configFileName, effects,
                 schema, sorted, resorted, rewriteCalls, notLinkVars>>

\* Lines 69-88, called at line 41: the file is written from the rewritten
\* configuration, or writeFileSync throws.
WriteAppConfigurationFile ==
  /\ linkPc = "writeAppConfigurationFile"
  /\ schema' = "AppSchema"
  /\ sorted' = Rewrite(AppSchema, configuration)
  /\ rewriteCalls' = 1
  /\ IF environment.writable
       THEN /\ effects' = Append(effects, "writeFileSync")
            /\ linkPc' = "saveCurrentConfig"
       ELSE /\ effects' = effects
            /\ linkPc' = "failed"
  /\ UNCHANGED <<options, environment, localApp, remoteApp, configFileName,
                 configuration, resorted, notLinkVars>>

\* saveCurrentConfig called without awaiting the write of the file.
SaveCurrentConfigNotAwaitingWrite ==
  /\ linkPc \in {"writeAppConfigurationFile", "saveCurrentConfig"}
  /\ \A k \in 1..Len(effects) : effects[k] # "saveCurrentConfig"
  /\ effects' = Append(effects, "saveCurrentConfig")
  /\ linkPc' = IF linkPc = "saveCurrentConfig" THEN "renderSuccess" ELSE linkPc
  /\ UNCHANGED <<options, environment, localApp, remoteApp, configFileName,
                 rewriteVars, notLinkVars>>

\* Line 43.
SaveCurrentConfig ==
  /\ linkPc = "saveCurrentConfig"
  /\ effects' = Append(effects, "saveCurrentConfig")
  /\ linkPc' = "renderSuccess"
  /\ UNCHANGED <<options, environment, localApp, remoteApp, configFileName,
                 rewriteVars, notLinkVars>>

\* Lines 45-62 and the return of line 64.
RenderSuccess ==
  /\ linkPc = "renderSuccess"
  /\ effects' = IF options.shouldRenderSuccess
                  THEN Append(effects, "renderSuccess")
                  ELSE effects
  /\ linkPc' = "returned"
  /\ UNCHANGED <<options, environment, localApp, remoteApp, configFileName,
                 rewriteVars, notLinkVars>>

LinkNext ==
  \/ LoadAppConfigFromDefaultToml
  \/ LoadRemoteApp
  \/ LoadConfigurationFileName
  \/ MergeAppConfiguration
  \/ WriteAppConfigurationFile
  \/ SaveCurrentConfig
  \/ RenderSuccess

SpecLink == LinkInit /\ [][LinkNext]_vars

(***************************************************************************)
(* Vocabulary of the properties: the rules of a webhooks document, stated  *)
(* on the document itself.                                                 *)
(***************************************************************************)
Done == pc = "done"

Accepted == pc = "done" /\ issues = <<>>

Rejected == pc = "done" /\ issues # <<>>

IsSet(v) == v # NoValue

HasPubSubPair(r) == IsSet(r.pubsub_project) /\ IsSet(r.pubsub_topic)

PairAtomic(r) == IsSet(r.pubsub_project) <=> IsSet(r.pubsub_topic)

\* The destination forms a record (or the top level) sets.
Forms(r) ==
  {f \in {"url", "pubsub", "arn"} :
     \/ f = "url" /\ IsSet(r.subscription_endpoint_url)
     \/ f = "pubsub" /\ HasPubSubPair(r)
     \/ f = "arn" /\ IsSet(r.arn)}

DestinationFields(r) ==
  <<r.subscription_endpoint_url, r.pubsub_project, r.pubsub_topic, r.arn>>

HasOwnDestination(r) == \E k \in 1..4 : IsSet(DestinationFields(r)[k])

EffectiveDestination(w, s) ==
  IF HasOwnDestination(s) THEN DestinationFields(s) ELSE DestinationFields(w)

\* The (topic, effective destination, path) triples of the entries: the
\* top-level topics first, then the subscriptions taken so far.
Triples ==
  [k \in 1..Len(webhooks.topics) |->
     <<webhooks.topics[k], DestinationFields(webhooks), NoValue>>]
  \o [k \in 1..Len(subscriptions) |->
     <<subscriptions[k].topic, EffectiveDestination(webhooks, subscriptions[k]),
       subscriptions[k].path>>]

\* Entry b has the triple of an earlier entry.
RepeatsEarlierTriple(b) == \E a \in 1..(b - 1) : Triples[a] = Triples[b]

HasDuplicateTriple == \E b \in 1..Len(Triples) : RepeatsEarlierTriple(b)

\* A record breaks one of the rules of a single record (step 6 a-d).
BreaksRecordRule(w, s) ==
  \/ ~PairAtomic(s)
  \/ Cardinality(Forms(s)) > 1
  \/ Forms(w) = {} /\ Forms(s) = {}
  \/ IsSet(s.path) /\ ~IsSet(w.subscription_endpoint_url) /\ ~IsSet(s.subscription_endpoint_url)
  \/ IsSet(s.path) /\ (IsSet(s.arn) \/ IsSet(s.pubsub_project))

\* The checks in the order of section 4.3, numbered: 1-5 the top-level checks,
\* 6 + j the checks of record j (0-based).
Violated(r) ==
  CASE r = 1 -> ~PairAtomic(webhooks)
    [] r = 2 -> Cardinality(Forms(webhooks)) > 1
    [] r = 3 -> Forms(webhooks) # {} /\ Len(webhooks.topics) = 0 /\ nSubscriptions = 0
    [] r = 4 -> Forms(webhooks) = {} /\ Len(webhooks.topics) # 0
    [] r = 5 -> \E a, b \in 1..Len(webhooks.topics) : a < b /\ webhooks.topics[a] = webhooks.topics[b]
    [] OTHER -> \/ BreaksRecordRule(webhooks, subscriptions[r - 5])
                \/ RepeatsEarlierTriple(Len(webhooks.topics) + r - 5)

\* The number of the check an issue comes from, read off its message and path.
IssueRank(issue) ==
  IF Len(issue.path) = 0
    THEN CASE issue.message = getFullPubSubValidationError("a top-level pub sub destination") -> 1
           [] issue.message = getTooManyDesignationsError("at the top level") -> 2
           [] OTHER -> 3
    ELSE IF issue.path[1] = "topics"
      THEN IF Len(issue.path) = 1 THEN 4 ELSE 5
      ELSE 6 + issue.path[2]

IsRecordIssue(issue, i) ==
  /\ Len(issue.path) >= 2
  /\ issue.path[1] = "subscriptions"
  /\ issue.path[2] = i

\* The document breaks none of the rules other than key uniqueness.
BreaksNoOtherRule ==
  /\ \A r \in 1..4 : ~Violated(r)
  /\ \A k \in 1..Len(subscriptions) : ~BreaksRecordRule(webhooks, subscriptions[k])

(***************************************************************************)
(* C1.  Original statement: a document in which two entries (top-level     *)
(* topics, subscription records) have the same (topic, effective           *)
(* destination, path) triple fails with DuplicateSubscription.             *)
(***************************************************************************)
C1_DuplicateAlwaysReported ==
  (Done /\ HasDuplicateTriple) =>
     (Len(issues) = 1 /\ issues[1].message = DuplicateSubscriptionMessage)

\* C1, amended: once the loops have passed two entries with the same triple the
\* validation has failed; the error is DuplicateSubscription when the document
\* breaks no other rule (an earlier check's error is reported otherwise).
C1_DuplicateRejected ==
  (pc \in {"subscriptions", "done"} /\ HasDuplicateTriple) =>
     /\ Rejected
     /\ Len(issues) = 1
     /\ BreaksNoOtherRule => issues[1].message = DuplicateSubscriptionMessage

\* A top-level topic and a record, or two records, with the same triple, reported.
C1_Witness ==
  /\ Rejected
  /\ BreaksNoOtherRule
  /\ Len(subscriptions) >= 1
  /\ RepeatsEarlierTriple(Len(Triples))
  /\ issues[1].message = DuplicateSubscriptionMessage

(***************************************************************************)
(* C2.  Fail-fast: a run adds no issue or exactly one, and the callback    *)
(* has returned as soon as an issue is added.                              *)
(***************************************************************************)
C2_FailFast ==
  /\ Len(issues) <= 1
  /\ issues # <<>> => pc = "done"

\* A document that breaks two top-level rules, rejected with one issue.
C2_Witness ==
  /\ Rejected
  /\ Violated(1)
  /\ IsSet(webhooks.subscription_endpoint_url) /\ IsSet(webhooks.arn)
  /\ Len(issues) = 1

(***************************************************************************)
(* C3.  The checks run in the order 1-5, then the records in list order,   *)
(* and the issue reported is that of the earliest check the document       *)
(* fails: no check ahead of the reported one is failed, a document that    *)
(* fails a top-level check gets that check's error, and a failing record   *)
(* gets its error when nothing ahead of it fails.                          *)
(***************************************************************************)
C3_EarliestFailingCheck ==
  Done =>
    LET failed == {r \in 1..(5 + Len(subscriptions)) : Violated(r)}
    IN  /\ issues # <<>> => \A r \in failed : r >= IssueRank(issues[1])
        /\ failed # {} =>
             /\ issues # <<>>
             /\ \A r \in failed : IssueRank(issues[1]) <= r
             /\ IssueRank(issues[1]) \in failed

\* The second record is the first thing that fails, after top-level topics.
C3_Witness ==
  /\ Rejected
  /\ Len(webhooks.topics) >= 1
  /\ IsRecordIssue(issues[1], 1)
  /\ Violated(7)

(***************************************************************************)
(* C4.  Original statement: a record that sets both pubsub_project and arn *)
(* fails with the per-subscription exclusivity error, whatever its other   *)
(* fields.                                                                 *)
(***************************************************************************)
C4_ProjectAndArnAlwaysExclusivity ==
  \A k \in 1..Len(subscriptions) :
    (IsSet(subscriptions[k].pubsub_project) /\ IsSet(subscriptions[k].arn)) =>
       /\ Len(issues) = 1
       /\ issues[1].message = getTooManyDesignationsError("per subscription")

\* C4, amended: a record the loop reaches that sets both pubsub_project and arn
\* makes validation fail at ['subscriptions', i]: with the exclusivity error when
\* it sets pubsub_topic too, with the incomplete-pair error when it does not.
C4_ProjectAndArnRejected ==
  \A k \in 1..Len(subscriptions) :
    (IsSet(subscriptions[k].pubsub_project) /\ IsSet(subscriptions[k].arn)) =>
       /\ Rejected
       /\ Len(issues) = 1
       /\ IsRecordIssue(issues[1], k - 1) /\ Len(issues[1].path) = 2
       /\ issues[1].message =
            IF IsSet(subscriptions[k].pubsub_topic)
              THEN getTooManyDesignationsError("per subscription")
              ELSE getFullPubSubValidationError("a pub sub destination")

\* A record with the pubsub pair, an arn, an endpoint URL and a path.
C4_Witness ==
  /\ Rejected
  /\ Len(subscriptions) >= 1
  /\ LET s == subscriptions[Len(subscriptions)]
     IN  /\ HasPubSubPair(s) /\ IsSet(s.arn)
         /\ IsSet(s.subscription_endpoint_url) /\ IsSet(s.path)
  /\ issues[1].message = getTooManyDesignationsError("per subscription")

(***************************************************************************)
(* C5.  Original statement: a record that sets path while neither it nor   *)
(* the top level sets subscription_endpoint_url fails with                 *)
(* PathMissingEndpoint, whatever the other destination fields.             *)
(***************************************************************************)
C5_PathWithoutUrlAlwaysMissingEndpoint ==
  \A k \in 1..Len(subscriptions) :
    (/\ IsSet(subscriptions[k].path)
     /\ ~IsSet(subscriptions[k].subscription_endpoint_url)
     /\ ~IsSet(webhooks.subscription_endpoint_url)) =>
       /\ Len(issues) = 1
       /\ issues[1].message = PathMissingEndpointMessage

\* C5, amended: such a record, once reached, makes validation fail at
\* ['subscriptions', i]; the error is PathMissingEndpoint when the record passes
\* the pair, exclusivity and missing-destination checks, also when the record
\* itself carries an arn or a pubsub pair.
C5_PathWithoutUrlRejected ==
  \A k \in 1..Len(subscriptions) :
    LET s == subscriptions[k]
    IN  (/\ IsSet(s.path)
         /\ ~IsSet(s.subscription_endpoint_url)
         /\ ~IsSet(webhooks.subscription_endpoint_url)) =>
           /\ Rejected
           /\ Len(issues) = 1
           /\ IsRecordIssue(issues[1], k - 1) /\ Len(issues[1].path) = 2
           /\ (/\ PairAtomic(s)
               /\ Cardinality(Forms(s)) <= 1
               /\ (Forms(webhooks) # {} \/ Forms(s) # {})) =>
                 issues[1].message = PathMissingEndpointMessage

\* A record with its own arn and a path, no endpoint URL in scope.
C5_Witness ==
  /\ Rejected
  /\ Len(subscriptions) >= 1
  /\ LET s == subscriptions[Len(subscriptions)]
     IN  /\ IsSet(s.path) /\ Forms(s) = {"arn"} /\ PairAtomic(s)
         /\ ~IsSet(webhooks.subscription_endpoint_url)
  /\ issues[1].message = PathMissingEndpointMessage

(***************************************************************************)
(* C6.  Original statement: the incompatible-destination check comes ahead *)
(* of the missing-endpoint check, so a record with a path and a            *)
(* record-level arn or pubsub destination fails with                       *)
(* PathWithIncompatibleDestination whether or not the top level sets       *)
(* subscription_endpoint_url.                                              *)
(***************************************************************************)
C6_IncompatibleBeforeMissingEndpoint ==
  \A k \in 1..Len(subscriptions) :
    LET s == subscriptions[k]
    IN  (IsSet(s.path) /\ PairAtomic(s) /\ Forms(s) \in {{"arn"}, {"pubsub"}}) =>
           /\ Len(issues) = 1
           /\ issues[1].message = PathWithIncompatibleDestinationMessage

\* C6, amended: the missing-endpoint check comes first.  Such a record fails with
\* PathWithIncompatibleDestination when the top level sets
\* subscription_endpoint_url, and with PathMissingEndpoint when it does not.
C6_MissingEndpointBeforeIncompatible ==
  \A k \in 1..Len(subscriptions) :
    LET s == subscriptions[k]
    IN  (IsSet(s.path) /\ PairAtomic(s) /\ Forms(s) \in {{"arn"}, {"pubsub"}}) =>
           /\ Rejected
           /\ Len(issues) = 1
           /\ IsRecordIssue(issues[1], k - 1) /\ Len(issues[1].path) = 2
           /\ issues[1].message =
                IF IsSet(webhooks.subscription_endpoint_url)
                  THEN PathWithIncompatibleDestinationMessage
                  ELSE PathMissingEndpointMessage

\* A record with its own pubsub pair and a path under a top-level endpoint URL.
C6_Witness ==
  /\ Rejected
  /\ Len(subscriptions) >= 1
  /\ LET s == subscriptions[Len(subscriptions)]
     IN  IsSet(s.path) /\ Forms(s) = {"pubsub"}
  /\ IsSet(webhooks.subscription_endpoint_url)
  /\ issues[1].message = PathWithIncompatibleDestinationMessage

(***************************************************************************)
(* C7.  A record the loop reaches (the top-level checks and the earlier    *)
(* records have passed) in which exactly one of pubsub_project and         *)
(* pubsub_topic is set makes validation fail with IncompletePubSubPair at  *)
(* ['subscriptions', i].                                                   *)
(***************************************************************************)
C7_RecordIncompletePair ==
  \A k \in 1..Len(subscriptions) :
    ~PairAtomic(subscriptions[k]) =>
       /\ Rejected
       /\ Len(issues) = 1
       /\ IsRecordIssue(issues[1], k - 1) /\ Len(issues[1].path) = 2
       /\ issues[1].message = getFullPubSubValidationError("a pub sub destination")

\* The document {subscriptions: [{topic, pubsub_project}]}.
C7_Witness ==
  /\ Rejected
  /\ ~HasOwnDestination(webhooks) /\ webhooks.topics = <<>>
  /\ Len(subscriptions) = 1
  /\ DestinationFields(subscriptions[1]) = <<NoValue, "p", NoValue, NoValue>>
  /\ ~IsSet(subscriptions[1].path)
  /\ issues[1].message = getFullPubSubValidationError("a pub sub destination")

(***************************************************************************)
(* C8.  A document with exactly one top-level destination form, a          *)
(* non-empty topics list and no subscription records validates iff no      *)
(* topic is repeated; with a repeated topic it fails with                  *)
(* DuplicateSubscription.                                                  *)
(***************************************************************************)
C8_TopicsOnlyDocument ==
  (/\ Done
   /\ PairAtomic(webhooks) /\ Cardinality(Forms(webhooks)) = 1
   /\ Len(webhooks.topics) >= 1
   /\ nSubscriptions = 0) =>
     /\ Accepted <=> ~Violated(5)
     /\ Violated(5) =>
          Len(issues) = 1 /\ issues[1].message = DuplicateSubscriptionMessage

\* topics [t, t] under one endpoint URL.
C8_Witness ==
  /\ Rejected
  /\ Forms(webhooks) = {"url"} /\ PairAtomic(webhooks)
  /\ Len(webhooks.topics) = 2 /\ Violated(5)
  /\ nSubscriptions = 0
  /\ issues[1].message = DuplicateSubscriptionMessage

(***************************************************************************)
(* C9.  The destination in a record's key is the record's own when it sets *)
(* one and the top-level one otherwise: a record that overrides the        *)
(* destination is never reported as a duplicate of a top-level topic with  *)
(* the same name and a different destination, and a record with no         *)
(* destination of its own and no path is reported as a duplicate of a      *)
(* top-level topic with its name.                                          *)
(***************************************************************************)
C9_OverrideNeverDuplicatesTopLevel ==
  Len(subscriptions) = 1 =>
    LET s == subscriptions[1]
    IN  /\ (HasOwnDestination(s) /\ DestinationFields(s) # DestinationFields(webhooks)) =>
              ~(Rejected /\ issues[1].message = DuplicateSubscriptionMessage)
        /\ (/\ ~HasOwnDestination(s) /\ ~IsSet(s.path)
            /\ \E t \in 1..Len(webhooks.topics) : webhooks.topics[t] = s.topic) =>
              (Rejected /\ issues[1].message = DuplicateSubscriptionMessage)

(***************************************************************************)
(* C10.  In an accepted document the top level and every record set at     *)
(* most one destination form, and pubsub_project is set iff pubsub_topic   *)
(* is.                                                                     *)
(***************************************************************************)
C10_AcceptedDestinationsWellFormed ==
  Accepted =>
    /\ PairAtomic(webhooks) /\ Cardinality(Forms(webhooks)) <= 1
    /\ \A k \in 1..Len(subscriptions) :
         PairAtomic(subscriptions[k]) /\ Cardinality(Forms(subscriptions[k])) <= 1

\* An accepted document with a top-level destination and two records, one of
\* which overrides the destination.
C10_Witness ==
  /\ Accepted
  /\ Forms(webhooks) # {}
  /\ Len(subscriptions) = 2
  /\ \E k \in 1..2 : Forms(subscriptions[k]) # {}
  /\ \E k \in 1..2 : Forms(subscriptions[k]) = {}

(***************************************************************************)
(* C11.  A record the loop reaches that sets no destination of its own     *)
(* (and passes its pair check) while the top level sets none fails with    *)
(* MissingDestination at ['subscriptions', i]; so in an accepted document  *)
(* every record has a destination form in effect, its own or the           *)
(* top-level one.                                                          *)
(***************************************************************************)
C11_MissingDestination ==
  /\ \A k \in 1..Len(subscriptions) :
       LET s == subscriptions[k]
       IN  (Forms(webhooks) = {} /\ Forms(s) = {} /\ PairAtomic(s)) =>
              /\ Rejected
              /\ Len(issues) = 1
              /\ IsRecordIssue(issues[1], k - 1) /\ Len(issues[1].path) = 2
              /\ issues[1].message = MissingDestinationMessage
  /\ Accepted =>
       \A k \in 1..Len(subscriptions) :
         /\ Forms(webhooks) # {} \/ Forms(subscriptions[k]) # {}
         /\ \E f \in 1..4 : IsSet(EffectiveDestination(webhooks, subscriptions[k])[f])

\* The second record has no destination and neither has the top level.
C11_Witness ==
  /\ Rejected
  /\ Forms(webhooks) = {} /\ PairAtomic(webhooks)
  /\ Len(subscriptions) = 2
  /\ ~HasOwnDestination(subscriptions[2])
  /\ issues[1].message = MissingDestinationMessage

(***************************************************************************)
(* C12.  A document whose top level sets one destination form (and passes  *)
(* the pair and exclusivity checks) and that has neither top-level topics  *)
(* nor subscription records fails with UnusedDestination.                  *)
(***************************************************************************)
C12_UnusedDestination ==
  (/\ Done
   /\ PairAtomic(webhooks) /\ Cardinality(Forms(webhooks)) = 1
   /\ Len(webhooks.topics) = 0 /\ nSubscriptions = 0) =>
     /\ Len(issues) = 1
     /\ issues[1].message = UnusedDestinationMessage

\* A lone top-level arn.
C12_Witness ==
  /\ Rejected
  /\ Forms(webhooks) = {"arn"} /\ PairAtomic(webhooks)
  /\ Len(webhooks.topics) = 0 /\ nSubscriptions = 0
  /\ issues[1].message = UnusedDestinationMessage

(***************************************************************************)
(* C13.  A document with top-level topics and no top-level destination     *)
(* field set fails with TopicsMissingDestination at path ['topics'],       *)
(* whatever its subscription records: none of them is examined.            *)
(***************************************************************************)
C13_TopicsMissingDestination ==
  (/\ pc # "topLevel"
   /\ ~HasOwnDestination(webhooks)
   /\ Len(webhooks.topics) # 0) =>
     /\ Rejected
     /\ Len(issues) = 1
     /\ issues[1].message = TopicsMissingDestinationMessage
     /\ Len(issues[1].path) = 1 /\ issues[1].path[1] = "topics"
     /\ subscriptions = <<>>

\* Topics without a top-level destination in a document that has subscriptions.
C13_Witness ==
  /\ Rejected
  /\ ~HasOwnDestination(webhooks)
  /\ Len(webhooks.topics) # 0
  /\ nSubscriptions >= 1
  /\ issues[1].message = TopicsMissingDestinationMessage

(***************************************************************************)
(* C14.  A DuplicateSubscription raised for record i has the path          *)
(* ['subscriptions', i, 'topic'] (list name, record index, field name),    *)
(* and every other record-level error has the path ['subscriptions', i].   *)
(***************************************************************************)
C14_IssuePathNamesTheField ==
  \A k \in 1..Len(subscriptions) :
    (Rejected /\ IsRecordIssue(issues[1], k - 1)) =>
       IF issues[1].message = DuplicateSubscriptionMessage
         THEN Len(issues[1].path) = 3 /\ issues[1].path[3] = "topic"
         ELSE Len(issues[1].path) = 2

(***************************************************************************)
(* Vocabulary of the properties of rewriteConfiguration.                   *)
(***************************************************************************)
Rewritten == rewriteCalls >= 1

\* The place of a key in a shape; 0 for a key the shape does not declare.
ShapeIndex(entries, key) ==
  IF \E k \in 1..Len(entries) : entries[k][1] = key
    THEN CHOOSE k \in 1..Len(entries) : entries[k][1] = key
    ELSE 0

RECURSIVE InSchemaOrder(_, _)
\* Every object of the value, at every depth, has the keys its schema
\* declares, in the order the schema declares them.
InSchemaOrder(zodSchema, value) ==
  IF zodSchema.kind \in {"ZodOptional", "ZodNullable"}
    THEN InSchemaOrder(zodSchema.innerType, value)
  ELSE IF zodSchema.kind = "ZodEffects" THEN InSchemaOrder(zodSchema.schema, value)
  ELSE IF zodSchema.kind = "ZodArray"
    THEN value.t = "array" =>
           \A k \in 1..Len(value.v) : InSchemaOrder(zodSchema.element, value.v[k])
  ELSE IF zodSchema.kind = "ZodObject"
    THEN value.t = "object" =>
           /\ \A k \in 1..Len(value.v) : ShapeIndex(zodSchema.shape, value.v[k][1]) # 0
           /\ \A j, k \in 1..Len(value.v) :
                j < k => ShapeIndex(zodSchema.shape, value.v[j][1])
                           < ShapeIndex(zodSchema.shape, value.v[k][1])
           /\ \A k \in 1..Len(value.v) :
                InSchemaOrder(zodSchema.shape[ShapeIndex(zodSchema.shape, value.v[k][1])][2],
                              value.v[k][2])
  ELSE TRUE

(***************************************************************************)
(* C15: rewriteConfiguration(AppSchema, value) emits every object-typed    *)
(* sub-tree, at every depth and in the webhooks section too, with its keys *)
(* in the order the schema declares them, so that two values equal as      *)
(* mappings are rewritten to the same ordered output.  The code does not   *)
(* look inside a ZodEffects, and WebhooksSchema is one: the webhooks       *)
(* section is returned as it came, in its insertion order.                 *)
(***************************************************************************)
C15_OutputInSchemaOrder ==
  (Rewritten /\ schema = "AppSchema") => InSchemaOrder(AppSchema, sorted)

RECURSIVE NoEmptyObjectField(_)
\* No object of the value, at any depth, has a field whose value is {}.
NoEmptyObjectField(value) ==
  IF value.t = "object"
    THEN \A k \in 1..Len(value.v) :
           /\ ~(value.v[k][2].t = "object" /\ Len(value.v[k][2].v) = 0)
           /\ NoEmptyObjectField(value.v[k][2])
  ELSE IF value.t = "array"
    THEN \A k \in 1..Len(value.v) : NoEmptyObjectField(value.v[k])
  ELSE TRUE

(***************************************************************************)
(* C16: the output of rewriteConfiguration never contains, at any depth,   *)
(* an object field whose value is an empty object.  The prune of lines     *)
(* 104-106 runs only where the code recurses, and it does not recurse into *)
(* the webhooks section (C15): an empty privacy_compliance table stays.    *)
(***************************************************************************)
C16_NoEmptyObjectInOutput == Rewritten => NoEmptyObjectField(sorted)

RECURSIVE ArraysElementwise(_, _, _)
\* At every array node the code recurses into, element i of the output is
\* what rewriting element i of the input alone gives.
ArraysElementwise(zodSchema, config, out) ==
  IF zodSchema.kind \in {"ZodOptional", "ZodNullable"}
    THEN ArraysElementwise(zodSchema.innerType, config, out)
  ELSE IF zodSchema.kind = "ZodArray"
    THEN /\ out.t = "array"
         /\ Len(out.v) = Len(config.v)
         /\ \A k \in 1..Len(out.v) :
              Same(out.v[k], Rewrite(zodSchema.element, config.v[k]))
  ELSE IF zodSchema.kind = "ZodObject"
    THEN \A k \in 1..Len(zodSchema.shape) :
           LET key == zodSchema.shape[k][1]
           IN  Get(out.v, key).t # "undefined" =>
                 ArraysElementwise(zodSchema.shape[k][2], Get(config.v, key), Get(out.v, key))
  ELSE TRUE

IdentifiersOf(specification) ==
  {specification.identifier} \cup specification.additionalIdentifiers

\* Two specifications of the list claim one identifier or alias.
HasDuplicateIdentifier(list) ==
  \E j, k \in 1..Len(list) :
    j # k /\ IdentifiersOf(list[j]) \cap IdentifiersOf(list[k]) # {}

(***************************************************************************)
(* C19: registering specifications of which two claim the same identifier  *)
(* or alias fails with DuplicateIdentifier instead of returning the list.  *)
(* registerUIExtensionSpecifications compares nothing: the hook returns    *)
(* the list whatever it holds.                                             *)
(***************************************************************************)
C19_DuplicateIdentifierFails ==
  (pluginReturns.status # "pending" /\ HasDuplicateIdentifier(specifications)) =>
     pluginReturns.status = "DuplicateIdentifier"

\* The n-th of a set of positions, counted from the lowest.
NthPosition(positions, n) ==
  CHOOSE k \in positions : Cardinality({j \in positions : j < k}) = n - 1

(***************************************************************************)
(* C20: App.extensionsForType(spec) returns exactly the extensions whose   *)
(* type equals spec.identifier or spec.externalIdentifier, in their        *)
(* original order, and no others; the call leaves the app's extension list *)
(* as it was.                                                              *)
(***************************************************************************)
C20_ExtensionsForType ==
  [][(extensionsOfType.status = "pending" /\ extensionsOfType'.status = "returned") =>
       /\ allExtensions' = allExtensions
       /\ LET returned == extensionsOfType'.value
              argument == extensionsOfType'.specification
              positions == {k \in 1..Len(allExtensions) :
                              \/ allExtensions[k].type = argument.identifier
                              \/ allExtensions[k].type = argument.externalIdentifier}
          IN  /\ Len(returned) = Cardinality(positions)
              /\ \A n \in 1..Len(returned) :
                   returned[n] = allExtensions[NthPosition(positions, n)]]_vars

\* A call that matched one extension by the identifier and a later one by
\* the external identifier, and left a third kind out.
C20_Witness ==
  /\ extensionsOfType.status = "returned"
  /\ extensionsOfType.specification.identifier # extensionsOfType.specification.externalIdentifier
  /\ Len(allExtensions) = 2
  /\ allExtensions[1].type = extensionsOfType.specification.externalIdentifier
  /\ allExtensions[2].type = extensionsOfType.specification.identifier
  /\ extensionsOfType.value = allExtensions

(***************************************************************************)
(* C21: App.updateExtensionUUIDS(uuids) sets the devUUID of the extensions *)
(* whose localIdentifier is a key of uuids to the mapped value and changes *)
(* nothing else: not the devUUID of the other extensions, not the          *)
(* membership or order of the list, not another field; applying the same   *)
(* map again changes nothing.                                              *)
(***************************************************************************)
C21_UpdateChangesOnlyDevUUID ==
  [][uuids'.status = "applied" =>
       /\ Len(allExtensions') = Len(allExtensions)
       /\ \A k \in 1..Len(allExtensions) :
            LET before == allExtensions[k]
                after == allExtensions'[k]
            IN  /\ after.type = before.type
                /\ after.localIdentifier = before.localIdentifier
                /\ IF before.localIdentifier \in DOMAIN uuids'.value
                     THEN after.devUUID = uuids'.value[before.localIdentifier]
                     ELSE after.devUUID = before.devUUID
       /\ (uuids.status = "applied" /\ uuids.value = uuids'.value) =>
             allExtensions' = allExtensions]_vars

\* A map with the key of the first of two extensions only, mapped to the
\* empty string, has been applied.
C21_Witness ==
  /\ uuids.status = "applied"
  /\ DOMAIN uuids.value = {"first"}
  /\ uuids.value["first"] = ""
  /\ Len(allExtensions) = 2
  /\ allExtensions[1].localIdentifier = "first"
  /\ allExtensions[1].devUUID = ""
  /\ allExtensions[2].localIdentifier = "second"
  /\ allExtensions[2].devUUID = "test-ui-extension-uuid"

(***************************************************************************)
(* Vocabulary of the properties of link.                                   *)
(***************************************************************************)
\* The positions of link after the one named.
AfterLoadAppConfig == linkPc # "loadAppConfigFromDefaultToml"

FileNameChosen ==
  linkPc \in {"mergeAppConfiguration", "writeAppConfigurationFile",
              "saveCurrentConfig", "renderSuccess", "returned"}

\* The effect occurs among the effects so far.
Occurred(effect) == \E k \in 1..Len(effects) : effects[k] = effect

(***************************************************************************)
(* C22: when loading the local app configuration fails, link does not fail *)
(* on that account: it goes on with an empty app as the local app, and     *)
(* with no configName option the file name is the default app              *)
(* configuration file name, chosen without prompting the user.             *)
(***************************************************************************)
C22_LocalLoadFailureFallsBack ==
  (AfterLoadAppConfig /\ ~environment.loads) =>
     /\ localApp = EmptyApp
     /\ linkPc = "failed" => (~environment.resolves \/ ~environment.writable)
     /\ (FileNameChosen /\ ~Boolean(options.configName)) =>
           /\ configFileName = defaultAppConfigurationFileName
           /\ ~Occurred("selectConfigName")

\* A run whose local load failed and that had no configName has returned.
C22_Witness ==
  /\ linkPc = "returned"
  /\ ~environment.loads
  /\ ~Boolean(options.configName)
  /\ configFileName = defaultAppConfigurationFileName
  /\ Occurred("writeFileSync")

\* How many times the effect occurred, and where it occurred first.
Occurrences(effect) == Cardinality({k \in 1..Len(effects) : effects[k] = effect})

FirstOccurrence(effect) ==
  CHOOSE k \in 1..Len(effects) :
    effects[k] = effect /\ \A j \in 1..(k - 1) : effects[j] # effect

\* effect a occurred, and before effect b.
OccurredBefore(a, b) ==
  Occurred(a) /\ FirstOccurrence(a) < FirstOccurrence(b)

(***************************************************************************)
(* C23: the steps of link happen in the order: the remote app is resolved, *)
(* the configuration file name is chosen, the file is written, the current *)
(* config is saved, success is rendered; each happens at most once.  When  *)
(* the remote app is not resolved the file is never written and            *)
(* saveCurrentConfig is never called; saveCurrentConfig is called only     *)
(* after the write of the file.                                            *)
(***************************************************************************)
C23_LinkStepsInOrder ==
  /\ \A effect \in {"writeFileSync", "saveCurrentConfig", "renderSuccess"} :
       Occurrences(effect) <= 1
  /\ configFileName # NoValue => remoteApp # Pending
  /\ Occurred("writeFileSync") => configFileName # NoValue
  /\ Occurred("saveCurrentConfig") =>
       OccurredBefore("writeFileSync", "saveCurrentConfig")
  /\ Occurred("renderSuccess") =>
       OccurredBefore("saveCurrentConfig", "renderSuccess")
  /\ (linkPc = "failed" /\ ~environment.resolves) =>
       /\ remoteApp = Pending
       /\ ~Occurred("writeFileSync")
       /\ ~Occurred("saveCurrentConfig")

\* A run that went through every step, rendering included.
C23_Witness ==
  /\ linkPc = "returned"
  /\ remoteApp = environment.app
  /\ configFileName # NoValue
  /\ effects = <<"writeFileSync", "saveCurrentConfig", "renderSuccess">>

(***************************************************************************)
(* C24: App.preDeployValidation completes successfully only after the      *)
(* preDeployValidation of every extension has completed successfully, and  *)
(* it has rejected once it is over and the preDeployValidation of an       *)
(* extension has rejected.                                                 *)
(***************************************************************************)
C24_AppWaitsForEveryExtension ==
  /\ appValidation = "fulfilled" =>
       /\ Len(extensionValidations) = Len(allExtensions)
       /\ \A k \in 1..Len(extensionValidations) :
            extensionValidations[k] = "fulfilled"
  /\ (deployPc = "done"
        /\ \E k \in 1..Len(extensionValidations) :
             extensionValidations[k] = "rejected") =>
       appValidation = "rejected"

(***************************************************************************)
(* C25: DuplicateSubscription is reported only when two entries have equal *)
(* (topic, effective destination, path) triples: entries with different    *)
(* triples never get the same key.                                         *)
(***************************************************************************)
C25_DuplicateOnlyForEqualTriples ==
  (Rejected /\ issues[1].message = DuplicateSubscriptionMessage) =>
     HasDuplicateTriple

\* The effective destination of the record is an endpoint URL and nothing else.
DeliversToEndpointUrl(w, s) ==
  LET destination == EffectiveDestination(w, s)
  IN  /\ IsSet(destination[1])
      /\ \A k \in 2..4 : ~IsSet(destination[k])

(***************************************************************************)
(* C26: in an accepted document every subscription record that sets a path *)
(* has an endpoint URL as its effective destination (its own, or the       *)
(* top-level one when it sets none), never an arn or a pubsub destination. *)
(***************************************************************************)
C26_PathOnlyWithEndpointUrl ==
  Accepted =>
    \A k \in 1..Len(subscriptions) :
      IsSet(subscriptions[k].path) => DeliversToEndpointUrl(webhooks, subscriptions[k])

\* An accepted document with a record that sets a path and no destination,
\* and a record that sets a path and its own endpoint URL.
C26_Witness ==
  /\ Accepted
  /\ Len(subscriptions) = 2
  /\ IsSet(subscriptions[1].path) /\ ~HasOwnDestination(subscriptions[1])
  /\ IsSet(subscriptions[2].path) /\ IsSet(subscriptions[2].subscription_endpoint_url)

\* The configuration has been merged.
Merged ==
  linkPc \in {"writeAppConfigurationFile", "saveCurrentConfig", "renderSuccess",
              "returned"}

\* The key is among the keys of the object.
HasKey(object, key) == \E k \in 1..Len(object.v) : object.v[k][1] = key

\* The object has a string field of the key, with the text.
HasText(object, key, text) ==
  /\ HasKey(object, key)
  /\ Get(object.v, key).t = "string"
  /\ Get(object.v, key).v = text

(***************************************************************************)
(* C27: access_scopes of the merged configuration.  When the remote app    *)
(* has requestedAccessScopes, scopes is their comma-join and               *)
(* use_legacy_install_flow is not set, whatever the local configuration    *)
(* holds.  Otherwise use_legacy_install_flow is true, and scopes is the    *)
(* non-empty scopes of the local configuration (legacy `scopes` or current *)
(* `access_scopes.scopes`) and is omitted when the local configuration has *)
(* none.                                                                   *)
(***************************************************************************)
C27_AccessScopesRemoteFirst ==
  Merged =>
    LET access_scopes == Get(configuration.v, "access_scopes")
        requested == remoteApp.requestedAccessScopes
        local == localApp.configuration.scopes
    IN  /\ access_scopes.t = "object"
        /\ requested.given =>
             /\ HasText(access_scopes, "scopes", Join(requested.value, ","))
             /\ ~HasKey(access_scopes, "use_legacy_install_flow")
        /\ ~requested.given =>
             /\ HasKey(access_scopes, "use_legacy_install_flow")
             /\ Same(Get(access_scopes.v, "use_legacy_install_flow"), True)
             /\ IsSet(local) => HasText(access_scopes, "scopes", local)
             /\ ~IsSet(local) => ~HasKey(access_scopes, "scopes")

\* The remote app has two requested scopes and the local configuration has
\* scopes of its own: the merged scopes are the remote ones.
C27_Witness ==
  /\ Merged
  /\ remoteApp.requestedAccessScopes.given
  /\ Len(remoteApp.requestedAccessScopes.value) = 2
  /\ IsSet(localApp.configuration.scopes)
  /\ HasText(Get(configuration.v, "access_scopes"), "scopes",
             Join(remoteApp.requestedAccessScopes.value, ","))

\* The positions of the extension points whose module file does not exist,
\* and of those whose target is the target of an earlier extension point.
MissingModules ==
  {k \in 1..Len(extensionPoints) : extensionPoints[k].module \notin existingModules}

RepeatedTargets ==
  {k \in 1..Len(extensionPoints) :
     \E j \in 1..(k - 1) : extensionPoints[j].target = extensionPoints[k].target}

\* The messages of an err: one for every missing module in list order, one
\* for the repeated targets when there are any, and the hint.
ExpectedMessages ==
  [n \in 1..Cardinality(MissingModules) |->
     ModuleNotFoundMessage(extensionPoints[NthPosition(MissingModules, n)])]
  \o (IF RepeatedTargets = {} THEN <<>>
      ELSE << DuplicateTargetsMessage(
                [n \in 1..Cardinality(RepeatedTargets) |->
                   extensionPoints[NthPosition(RepeatedTargets, n)].target]) >>)
  \o << CheckConfigurationMessage >>

(***************************************************************************)
(* C28: validateUIExtensionPointConfig returns ok if and only if every     *)
(* extension point's module file exists and the targets are pairwise       *)
(* distinct; otherwise it returns one err whose text is, joined by blank   *)
(* lines, a message for every missing module in list order, then one       *)
(* message listing every repeated occurrence of a target, then the hint to *)
(* check the configuration file.                                           *)
(***************************************************************************)
C28_ValidateUIExtensionPointConfig ==
  uiPc = "returned" =>
    /\ validation.ok <=> (MissingModules = {} /\ RepeatedTargets = {})
    /\ validation.ok => validation.value = "{}"
    /\ ~validation.ok => validation.value = Join(ExpectedMessages, "\n\n")

\* Three extension points: the first and the last with a missing module, and
\* all with the same target, which is listed twice.
C28_Witness ==
  /\ uiPc = "returned"
  /\ ~validation.ok
  /\ Len(extensionPoints) = 3
  /\ MissingModules = {1, 3}
  /\ RepeatedTargets = {2, 3}

\* The targeting entry declares an input query whose file does not exist.
InputQueryMissing(entry) ==
  /\ Boolean(entry.input_query)
  /\ ~fileExists(functionFiles, joinPath(directory, entry.input_query))

(***************************************************************************)
(* C29: deployConfig of the function specification fails with an abort     *)
(* error if and only if some targeting entry declares an input_query whose *)
(* file does not exist.  A missing input.graphql in the directory never    *)
(* makes it fail: input_query is then absent.  On success targets has one  *)
(* entry for every targeting entry, in the same order, each with the       *)
(* contents of its own input query file (none when it declares none).      *)
(***************************************************************************)
C29_DeployConfigInputQueries ==
  functionPc = "done" =>
    /\ deployConfigResult.status = "AbortError" <=>
         \E k \in 1..Len(targeting.value) : InputQueryMissing(targeting.value[k])
    /\ deployConfigResult.status # "AbortError" =>
         /\ deployConfigResult.status = "returned"
         /\ deployConfigResult.input_query =
              IF fileExists(functionFiles, joinPath(directory, "input.graphql"))
                THEN readFile(joinPath(directory, "input.graphql"))
                ELSE NoValue
         /\ deployConfigResult.targets.given = targeting.given
         /\ Len(deployConfigResult.targets.value) = Len(targeting.value)
         /\ \A k \in 1..Len(targeting.value) :
              LET entry == targeting.value[k]
                  target == deployConfigResult.targets.value[k]
              IN  /\ target.handle = entry.target
                  /\ target.input_query =
                       IF Boolean(entry.input_query)
                         THEN readFile(joinPath(directory, entry.input_query))
                         ELSE NoValue

\* deployConfig has returned for two targeting entries with different input
\* queries, in a directory with no input.graphql.
C29_Witness ==
  /\ functionPc = "done"
  /\ deployConfigResult.status = "returned"
  /\ ~fileExists(functionFiles, joinPath(directory, "input.graphql"))
  /\ Len(targeting.value) = 2
  /\ Boolean(targeting.value[1].input_query)
  /\ Boolean(targeting.value[2].input_query)
  /\ targeting.value[1].input_query # targeting.value[2].input_query
  /\ deployConfigResult.targets.value[1].input_query
       # deployConfigResult.targets.value[2].input_query

RECURSIVE KeysFromInput(_, _, _)

\* At every object node of the schema, the keys of the output are keys the
\* node declares and the input defines; scalars are the input's.
KeysFromInput(zodSchema, config, out) ==
  IF zodSchema.kind \in {"ZodOptional", "ZodNullable"}
    THEN KeysFromInput(zodSchema.innerType, config, out)
  ELSE IF zodSchema.kind = "ZodEffects"
    THEN TRUE
  ELSE IF zodSchema.kind = "ZodArray"
    THEN /\ out.t = "array"
         /\ Len(out.v) = Len(config.v)
         /\ \A k \in 1..Len(out.v) :
              KeysFromInput(zodSchema.element, config.v[k], out.v[k])
  ELSE IF zodSchema.kind = "ZodObject"
    THEN /\ out.t = "object"
         /\ \A k \in 1..Len(out.v) :
              LET key == out.v[k][1]
              IN  /\ \E e \in 1..Len(zodSchema.shape) : zodSchema.shape[e][1] = key
                  /\ Get(config.v, key).t # "undefined"
                  /\ \A e \in 1..Len(zodSchema.shape) :
                       zodSchema.shape[e][1] = key =>
                         KeysFromInput(zodSchema.shape[e][2], Get(config.v, key),
                                       out.v[k][2])
  ELSE Same(out, config)

=============================================================================
